---- MODULE Spec2Model ----
(***************************************************************************)
(* A model of ms2txt: the MetaStock index readers, the per-symbol data     *)
(* file reader (metastock/files.py, metastockX/mod_files.py), both used    *)
(* by one thread as in ms2pandas.py, and the helper functions of           *)
(* metastockX/utils.py.                                                    *)
(*                                                                         *)
(* Strings are sequences of one-character strings: "ABC" is                *)
(* <<"A","B","C">>.  A Python call that may raise is modelled by a record  *)
(* [err |-> BOOLEAN, val |-> value].                                       *)
(***************************************************************************)
EXTENDS Integers, Sequences, FiniteSets, TLC

VARIABLES
    nm_pc, nm_in, nm_once, nm_twice,     \* convertSymbolName driver
    fl_pc, fl_bytes, fl_res,             \* fmsbin2ieee driver
    \* MetastockFiles.__init__
    pc,              \* position in __init__ / output_data_list / output_ascii
    symbols,         \* self.symbols: file number -> Stock
    table,           \* the hash table of self.symbols: the key held by each slot
    i,               \* loop index of the index loops
    s,               \* the Stock most recently returned by load_symbol
    master_fh,       \* master.file_handle: "None" | "open"
    master_count,    \* master.reconds_count
    emaster_fh,      \* emaster.file_handle: "unset" | "None" | "open"
    emaster_count,   \* emaster.reconds_count
    master_exists,   \* os.path.isfile(MASTER), as seen by master.load
    emaster_last,    \* the raw record EMASTER yielded last (RecNone: none yet)
    index_eof,       \* the index file being read ends inside the record read last
    exc,             \* the exception that ended the call, "none" otherwise
    \* MetastockFiles.output_data_list / output_ascii
    mode,            \* the call in progress: "none" | "list" | "ascii"
    all_symbols,     \* argument all_symbols
    sel,             \* argument symbols (the codes asked for)
    pos,             \* number of entries of self.symbols.values() visited
    out,             \* data_dict_list of output_data_list
    errlog,          \* the symbols printed by "Error while converting symbol"
    written,         \* the symbols whose <symbol>.TXT was opened for writing
    \* DatFile, for the stock being dumped (gone when the dump of the stock ends)
    cur,             \* file number of the stock of the DatFile, 0 when none
    dop,             \* the F<n>.DOP file load_columns found
    columns,         \* self.columns: [set |-> FALSE] is None
    file,            \* the F<n>.DAT file candles_to_list / dump_candles opened
    fh,              \* file_handle of the data file: "None" | "open" | "closed"
    offset,          \* position of file_handle
    max_recs,        \* self.max_recs
    last_rec,        \* self.last_rec
    k,               \* records appended (rows written) by the loop so far
    ddl,             \* data_dict_list of candles_to_list (rows of dump_candles)
    raised,          \* the exception raised inside the read, or "none"
    outcome,         \* per file number: how the dump of its stock ended
    \* metastockX: MSEMasterFile and DataFileInfo
    x_pc,            \* position in MSEMasterFile.__init__ / output_* / convert2*
    x_exc,           \* the exception that ended the call, "none" otherwise
    x_master_file,   \* self.master_file
    x_stocks,        \* self.stocks
    x_fh,            \* file_handle of __init__: "None" | "open" | "closed"
    x_mode,          \* the call in progress: "none" | "list" | "ascii"
    x_all_symbols,   \* argument all_symbols
    x_sel,           \* argument symbols
    x_pos,           \* number of entries of self.stocks visited
    x_out,           \* data_dict_list of MSEMasterFile.output_data_list
    x_errlog,        \* the symbols printed by "Error while converting symbol"
    x_written,       \* the symbols whose <symbol>.TXT was opened for writing
    \* DataFileInfo, for the entry being converted
    x_cur,           \* index in self.stocks of the entry, 0 when none
    x_dop,           \* the F<n>.DOP file _load_columns opened
    x_columns,       \* self.columns
    x_file,          \* the F<n>.MWD file candles_to_list / load_candles opened
    x_offset,        \* position of file_handle
    x_num_fields,    \* self.num_fields
    x_last_rec,      \* self.last_rec
    x_k,             \* records appended (rows written) so far
    x_ddl,           \* data_dict_list of candles_to_list (rows of load_candles)
    x_raised,        \* the exception raised inside the read, or "none"
    \* the precision of the float columns, a class attribute of each reader
    precision,       \* DatFile.FloatColumn.precision
    x_precision,     \* DataFileInfo.FloatColumn.precision
    \* driver of the precision setting
    pr_pc,           \* "run" while constructions and reads are exercised, "crashed" after an exception
    pr_built,        \* a MetastockFiles object exists
    x_built,         \* an MSEMasterFile object exists
    pr_ops,          \* operations done so far
    pr_op,           \* the last operation, its precision argument and its exception
    pr_first,        \* the precision the first formatted value was written with
    pr_text          \* the last formatted value

nmVars == <<nm_pc, nm_in, nm_once, nm_twice>>
flVars == <<fl_pc, fl_bytes, fl_res>>
buildVars == <<symbols, table, i, s, master_fh, master_count, emaster_fh,
               emaster_count, master_exists, emaster_last, index_eof>>
callVars == <<mode, all_symbols, sel, pos, out, errlog, written, outcome>>
datVars == <<cur, dop, columns, file, fh, offset, max_recs, last_rec, k, ddl, raised>>
msVars == <<pc, exc, buildVars, callVars, datVars>>
xCatVars == <<x_exc, x_master_file, x_stocks, x_fh>>
xCallVars == <<x_mode, x_all_symbols, x_sel, x_pos, x_out, x_errlog, x_written>>
xDatVars == <<x_cur, x_dop, x_columns, x_file, x_offset, x_num_fields, x_last_rec,
              x_k, x_ddl, x_raised>>
xVars == <<x_pc, xCatVars, xCallVars, xDatVars>>
prDriverVars == <<pr_pc, pr_built, x_built, pr_ops, pr_op, pr_first, pr_text>>
prVars == <<precision, x_precision, prDriverVars>>
vars == <<nmVars, flVars, msVars, xVars, prVars>>

(***************************************************************************)
(* Bounds of the model.                                                    *)
(***************************************************************************)
MaxNameLen == 4
MaxMaster == 3       \* largest record count a MASTER header declares
MaxEMaster == 1      \* largest record count an EMASTER header declares
MaxLast == 3         \* largest last-used count a data file header declares
MaxStored == 2       \* largest number of whole records a data file holds
MaxXEntries == 2     \* largest number of entries an XMASTER header declares
MaxPrec == 3         \* largest precision argument a catalog is constructed with
MaxOps == 4          \* constructions and formatted values in one run

Min(a, b) == IF a < b THEN a ELSE b
Max(a, b) == IF a > b THEN a ELSE b

(***************************************************************************)
(* metastockX/utils.py: convertSymbolName                                  *)
(***************************************************************************)
\* the characters names are drawn from: the marker, the delimiter, letters
NameChars == {"@", "#", "A", "B"}

RECURSIVE SeqsUpTo(_, _)
SeqsUpTo(S, n) ==
    IF n = 0 THEN {<<>>}
    ELSE LET shorter == SeqsUpTo(S, n - 1)
         IN  shorter \cup {Append(q, c) : q \in {t \in shorter : Len(t) = n - 1}, c \in S}

\* str.find(ch): index (0-based) of the first occurrence, -1 when absent
RECURSIVE FindFrom(_, _, _)
FindFrom(str, ch, p) ==
    IF p > Len(str) THEN -1
    ELSE IF str[p] = ch THEN p - 1
    ELSE FindFrom(str, ch, p + 1)

Find(str, ch) == FindFrom(str, ch, 1)

\* Python slice s[b:e] for 0 <= b and 0 <= e: empty when b >= e
Slice(str, b, e) ==
    LET hi == Min(e, Len(str))
    IN  IF b >= hi THEN <<>> ELSE SubSeq(str, b + 1, hi)

Ok(v) == [err |-> FALSE, val |-> v]
Raise == [err |-> TRUE, val |-> <<>>]

\* mutant: the marker test looks at no character (guards the empty name)
convertSymbolName_nostrip(sym_name) ==
    LET pound_index == Find(sym_name, "#")
        end_chars == IF pound_index = -1 THEN Len(sym_name) ELSE pound_index
    IN  Ok(Slice(sym_name, 0, end_chars))

\* mutant: a missing '#' is used as the end index -1 (drops the last char)
convertSymbolName_minus1(sym_name) ==
    IF Len(sym_name) = 0 THEN Raise
    ELSE LET beg_chars == IF sym_name[1] = "@" THEN 2 ELSE 0
             pound_index == Find(sym_name, "#")
             end_chars == IF pound_index = -1 THEN Len(sym_name) - 1 ELSE pound_index
         IN  Ok(Slice(sym_name, beg_chars, end_chars))

\* mutant: the '#' is looked for in what follows the stripped marker
convertSymbolName_findafter(sym_name) ==
    IF Len(sym_name) = 0 THEN Raise
    ELSE LET beg_chars == IF sym_name[1] = "@" THEN 2 ELSE 0
             rest == Slice(sym_name, beg_chars, Len(sym_name))
             pound_index == Find(rest, "#")
             end_chars == IF pound_index = -1 THEN Len(rest) ELSE pound_index
         IN  Ok(Slice(rest, 0, end_chars))

convertSymbolName(sym_name) ==
    IF Len(sym_name) = 0
    THEN Raise                       \* sym_name[0] on '' raises IndexError
    ELSE LET beg_chars == IF sym_name[1] = "@" THEN 2 ELSE 0
             pound_index == Find(sym_name, "#")
             end_chars == IF pound_index = -1 THEN Len(sym_name) ELSE pound_index
         IN  Ok(Slice(sym_name, beg_chars, end_chars))

(***************************************************************************)
(* metastockX/utils.py: fmsbin2ieee                                        *)
(* The result float is kept as the four bytes of its single precision bit  *)
(* pattern (little endian); 0.0 is <<0,0,0,0>>.                            *)
(***************************************************************************)
ByteVals == {0, 1, 2, 127, 128, 130, 255}

\* bitwise and / or of two naturals below 2^n
RECURSIVE BitAnd(_, _, _)
BitAnd(x, y, n) ==
    IF n = 0 THEN 0
    ELSE (IF x % 2 = 1 /\ y % 2 = 1 THEN 1 ELSE 0) + 2 * BitAnd(x \div 2, y \div 2, n - 1)

RECURSIVE BitOr(_, _, _)
BitOr(x, y, n) ==
    IF n = 0 THEN 0
    ELSE (IF x % 2 = 1 \/ y % 2 = 1 THEN 1 ELSE 0) + 2 * BitOr(x \div 2, y \div 2, n - 1)

\* the low 16 bits of a Python int (two's complement for a negative one)
Low16(x) == x % 65536

FloatZero == <<0, 0, 0, 0>>

\* struct.unpack('H', bytes[2:])[0]
UnpackH(b) == b[3] + 256 * b[4]

\* the bytes built from a non-zero word: lines 19..26
Reassemble(b, man0) ==
    LET exp == BitAnd(man0, 65280, 16) - 512
        man1 == BitOr(BitAnd(man0, 127, 16), BitAnd(Low16(man0 * 256), 32768, 16), 16)
        \* man |= exp >> 1: exp may be negative; only bits 0..15 are used below
        man2 == BitOr(man1, Low16(exp \div 2), 16)
    IN  <<b[1], b[2], BitAnd(man2, 255, 16), BitAnd(man2 \div 256, 255, 16)>>

\* mutant: the zero test on the mantissa word is missing
fmsbin2ieee_nozero(b) ==
    Reassemble(b, UnpackH(b))

fmsbin2ieee(b) ==
    LET as_int == <<b>>        \* struct.unpack("i", ...) is a 1-tuple
    IN  IF Len(as_int) = 0 THEN FloatZero       \* "not as_int": never true
        ELSE LET man == UnpackH(b)
             IN  IF man = 0 THEN FloatZero
                 ELSE Reassemble(b, man)

\* the drivers of the helper functions, when they are not running
NoResult == [err |-> FALSE, val |-> <<"?">>]

NmIdle ==
    /\ nm_pc = "idle" /\ nm_in = <<>> /\ nm_once = NoResult /\ nm_twice = NoResult

FlIdle ==
    /\ fl_pc = "idle" /\ fl_bytes = FloatZero /\ fl_res = FloatZero

(***************************************************************************)
(* FloatColumn.precision, a class attribute (2) of DatFile.FloatColumn and *)
(* of DataFileInfo.FloatColumn, written by the catalog constructors and    *)
(* read by FloatColumn.format.  A value is the binary number it is stored  *)
(* as, num / 2^exp2; a formatted value is its number of decimals and its   *)
(* digits.                                                                 *)
(***************************************************************************)
DefaultPrecision == 2

\* the precision argument of a constructor: None, or a number
NoArg == [given |-> FALSE, val |-> 0]
PrecArgs == {NoArg} \cup {[given |-> TRUE, val |-> n] : n \in 0..MaxPrec}

\* the precision arguments the catalogs are constructed with when their
\* index files are read as well: none, or the largest
CatalogPrecArgs == {NoArg, [given |-> TRUE, val |-> MaxPrec]}

\* the values formatted (none is negative): 1.125, 0.125, 2.5 and 0.5 fall
\* halfway between two neighbours at some precision, 4115/4096 lies just
\* below 1.005 and 5054/4096 just below 1.234
FloatVals ==
    {[num |-> 9, exp2 |-> 3], [num |-> 1, exp2 |-> 3], [num |-> 5, exp2 |-> 1],
     [num |-> 1, exp2 |-> 1], [num |-> 4115, exp2 |-> 12], [num |-> 5054, exp2 |-> 12]}

RECURSIVE Pow10(_)
Pow10(n) == IF n = 0 THEN 1 ELSE 10 * Pow10(n - 1)

RECURSIVE PowTwo(_)
PowTwo(n) == IF n = 0 THEN 1 ELSE 2 * PowTwo(n - 1)

\* ("%0." + str(precision) + "f") % value: the decimal number of precision
\* decimals nearest to the binary value, the even one when two are equally
\* near
FloatColumn_format(value, prec) ==
    LET scaled == value.num * Pow10(prec)
        whole == scaled \div PowTwo(value.exp2)
        rest == scaled % PowTwo(value.exp2)
    IN  [decimals |-> prec,
         digits |-> IF 2 * rest > PowTwo(value.exp2)
                       \/ (2 * rest = PowTwo(value.exp2) /\ whole % 2 = 1)
                    THEN whole + 1
                    ELSE whole]

NoText == [decimals |-> 0, digits |-> 0]
NoFirst == [set |-> FALSE, val |-> 0]
NoOp == [name |-> "none", arg |-> NoArg, exc |-> "none"]

\* the ways a catalog constructor ends once the precision is stored: the
\* catalog is built, or an exception of the index readers leaves no object
\* (exit() without EMASTER, struct.error on a cut index file, ValueError and
\* IndexError of a record)
CatalogEnds == {"none", "SystemExit", "struct.error", "ValueError", "IndexError"}
XCatalogEnds == {"none", "struct.error", "IndexError"}

\* "if precision is not None: ...FloatColumn.precision = precision"
SetPrecision(current, arg) ==
    IF arg.given THEN arg.val ELSE current

PrIdleData ==
    /\ precision = DefaultPrecision /\ x_precision = DefaultPrecision
    /\ pr_built = FALSE /\ x_built = FALSE
    /\ pr_ops = 0 /\ pr_op = NoOp /\ pr_first = NoFirst /\ pr_text = NoText

PrIdle == pr_pc = "idle" /\ PrIdleData

(***************************************************************************)
(* metastock/files.py: Stock and the index readers.                        *)
(* The module metastock/utils.py (paddedString, float2date) is not part of *)
(* the sources; paddedString and the date decoding follow the description  *)
(* of the specification.                                                   *)
(***************************************************************************)
AB == <<"A", "B">>
ABC == <<"A", "B", "C">>
B1 == <<"B">>

\* Stock(): the class attributes are the defaults
NewStock ==
    [file_number |-> 0, fields |-> 0, stock_symbol |-> <<>>, stock_name |-> "",
     first_date |-> "None", last_date |-> "None", time_frame |-> "D",
     datafile_ext |-> "", filename |-> ""]

\* trims the padding (trailing blanks) of a fixed-width field
RECURSIVE paddedString(_)
paddedString(raw) ==
    IF Len(raw) > 0 /\ raw[Len(raw)] = " "
    THEN paddedString(SubSeq(raw, 1, Len(raw) - 1))
    ELSE raw

\* float2date(fmsbin2ieee(...)): a stored date decodes to a calendar date,
\* except 0.0 (month 0: datetime.date raises) and a NaN (int() raises)
float2date(raw) ==
    IF raw \in {"zero", "nan"} THEN [err |-> TRUE, val |-> "None"] ELSE [err |-> FALSE, val |-> raw]

FileName(n) ==
    IF n = 1 THEN "F1" ELSE IF n = 2 THEN "F2" ELSE IF n = 7 THEN "F7" ELSE "F0"

\* the raw records an index file may hold (one per load_symbol call)
RawRecord(fn, nf, sym, name, tf, d1, d2) ==
    [file_number |-> fn, fields |-> nf, symbol |-> sym, name |-> name,
     time_frame |-> tf, first_date |-> d1, last_date |-> d2]

Rec7 == RawRecord(7, 7, <<"A", "B", "C", " ", " ">>, "N7", "D", "d1", "d2")
Rec1 == RawRecord(1, 7, <<"@", "@", "A", "B", "#", "1">>, "N1", "D", "d1", "d2")
Rec1b == RawRecord(1, 6, <<"A", "B", "C">>, "", "W", "d2", "d2")
Rec2 == RawRecord(2, 3, <<"B", " ">>, "", "D", "d1", "d2")
Rec0 == RawRecord(0, 0, <<"A", " ">>, "", "D", "d1", "d1")
RecZero == RawRecord(0, 0, <<" ", " ">>, "", "D", "zero", "zero")

RecNone == RawRecord(0, 0, <<>>, "", "", "None", "None")

RecBlank == RawRecord(7, 7, <<" ", " ">>, "N7", "D", "d1", "d2")

MasterRecs == {Rec7, Rec1, Rec1b, Rec2, Rec0, RecZero, RecBlank}

ERec7 == RawRecord(7, 7, <<"A", "B", "C", " ", " ">>, "N7x", "D", "d1", "d2")
ERec1 == RawRecord(1, 7, <<"A", "B", " ">>, "", "D", "d1", "d2")
ERecBlank == RawRecord(7, 7, <<" ", " ">>, "N7x", "D", "d1", "d2")
ERecZeroDate == RawRecord(1, 7, <<"A", "B", " ">>, "N1x", "D", "d1", "zero")
EMasterRecs == {ERec7, ERec1, RecZero, ERecBlank, ERecZeroDate}

\* a record takes 53 bytes of MASTER and 192 of EMASTER
MasterRecordSize == 53
EMasterRecordSize == 192

\* what a load_symbol call meets: a record and the number of its bytes that
\* the file holds.  Every record is met whole, not at all (it lies past the
\* end of the file), cut before its dates, cut before its symbol and cut
\* after its last field; the second record of file 1 is also met cut
\* after the first byte of its symbol
MasterReads ==
    {[raw |-> rec, avail |-> n] :
        rec \in MasterRecs, n \in {0, 20, 35, 50, MasterRecordSize}}
        \cup {[raw |-> Rec1b, avail |-> 37]}

\* of EMASTER: not at all, cut before the field count, before the symbol,
\* after the first byte of the symbol, before the dates, after the last
\* field, and whole
EMasterReads ==
    {[raw |-> rec, avail |-> n] :
        rec \in EMasterRecs, n \in {0, 5, 10, 12, 40, 76, EMasterRecordSize}}

\* file_handle.read(n) of a symbol field that starts at byte from of its
\* record, of which the file holds avail bytes
ReadField(field, from, avail) ==
    SubSeq(field, 1, Min(Len(field), Max(avail - from, 0)))

\* what load_symbol returns or raises
Raises(kind) == [err |-> TRUE, exc |-> kind, val |-> NewStock]

\* MSMasterFile.load_symbol (lines 320-342): every field is decoded,
\* whatever the file number; the file number is unpacked from byte 0, the
\* record length and the field count from bytes 3 and 4, the dates from the
\* bytes 25-29 and 29-33, the time frame from byte 33 (struct.error when
\* the bytes are not there), and the symbol is what is left of the bytes
\* 36-50
MSMaster_load_symbol(raw, avail) ==
    LET d1 == float2date(raw.first_date)
        d2 == float2date(raw.last_date)
        sym == convertSymbolName(paddedString(ReadField(raw.symbol, 36, avail)))
    IN  IF avail < 29 THEN Raises("struct.error")
        ELSE IF d1.err THEN Raises("ValueError")
        ELSE IF avail < 33 THEN Raises("struct.error")
        ELSE IF d2.err THEN Raises("ValueError")
        ELSE IF avail < 34 THEN Raises("struct.error")
        ELSE IF sym.err THEN Raises("IndexError")
        ELSE [err |-> FALSE, exc |-> "none",
              val |-> [file_number |-> raw.file_number,
                       fields |-> raw.fields,
                       stock_symbol |-> sym.val,
                       stock_name |-> raw.name,
                       first_date |-> d1.val, last_date |-> d2.val,
                       time_frame |-> raw.time_frame,
                       datafile_ext |-> ".DAT",
                       filename |-> FileName(raw.file_number)]]

\* MSEMasterFile.load_symbol (lines 375-398): the file number is unpacked
\* from byte 2 and a file number of 0 returns the default Stock; the field
\* count is unpacked from byte 6, the symbol is what is left of the bytes
\* 11-25, the time frame is unpacked from byte 60 and the dates from the
\* bytes 64-68 and 72-76
MSEMaster_load_symbol(raw, avail) ==
    IF avail < 3 THEN Raises("struct.error")
    ELSE IF raw.file_number = 0
    THEN [err |-> FALSE, exc |-> "none", val |-> NewStock]
    ELSE LET sym == convertSymbolName(paddedString(ReadField(raw.symbol, 11, avail)))
             d1 == float2date(raw.first_date)
             d2 == float2date(raw.last_date)
         IN  IF avail < 7 THEN Raises("struct.error")
             ELSE IF sym.err THEN Raises("IndexError")
             ELSE IF avail < 68 THEN Raises("struct.error")
             ELSE IF d1.err THEN Raises("ValueError")
             ELSE IF avail < 76 THEN Raises("struct.error")
             ELSE IF d2.err THEN Raises("ValueError")
             ELSE [err |-> FALSE, exc |-> "none",
                   val |-> [file_number |-> raw.file_number,
                            fields |-> raw.fields,
                            stock_symbol |-> sym.val,
                            stock_name |-> raw.name,
                            first_date |-> d1.val, last_date |-> d2.val,
                            time_frame |-> raw.time_frame,
                            datafile_ext |-> ".DAT",
                            filename |-> FileName(raw.file_number)]]

\* self.symbols[k] = v
DictSet(d, key, v) == [x \in (DOMAIN d) \cup {key} |-> IF x = key THEN v ELSE d[x]]

\* the hash table of a dict of at most five entries: eight slots, a slot
\* holds a key or is unused; more entries would make the table grow
DictSlots == 8
NoKey == 0 - 1
EmptyTable == [x \in 0..(DictSlots - 1) |-> NoKey]

\* the slot an int key is looked up or stored in (hash(n) = n): the slot
\* hash & mask, and while that slot holds another key the next one of the
\* probe sequence i = 5 * i + perturb + 1, perturb >>= 5
RECURSIVE Probe(_, _, _, _)
Probe(tab, key, idx, perturb) ==
    IF tab[idx] = NoKey \/ tab[idx] = key THEN idx
    ELSE Probe(tab, key, (5 * idx + perturb + 1) % DictSlots, perturb \div 32)

HashSlot(tab, key) == Probe(tab, key, key % DictSlots, key)

\* self.symbols[key] = ...: a new key takes the slot found, an existing key
\* keeps its slot
DictInsert(tab, key) == [tab EXCEPT ![HashSlot(tab, key)] = key]

\* self.symbols.values(): the interpreter the sources are written for
\* (xrange, long) walks the slots of the table
DictOrder(tab) ==
    SelectSeq([j \in 1..DictSlots |-> tab[j - 1]], LAMBDA x : x # NoKey)

\* the order in which output_data_list and output_ascii meet the stocks
order == DictOrder(table)

EmptyDict == [x \in {} |-> NewStock]

(***************************************************************************)
(* MetastockFiles.__init__, one step per file operation.                   *)
(***************************************************************************)
\* one thread runs the operations of both readers: an operation starts when
\* no other is in progress and none has ended with an exception (ms2pandas
\* lets every exception end the run)
MsQuiet == pc \in {"start", "built"}
XQuiet == x_pc \in {"start", "xbuilt"}

\* the file numbers of the data files, and what a DatFile holds before it
\* has read anything
FileNums == {1, 2, 7}
NoColumns == [set |-> FALSE, cols |-> <<>>]
NoDop == [present |-> FALSE, lines |-> <<>>]
NoFile == [present |-> FALSE, size |-> 0, max |-> 0, last |-> 0]

\* no call on the catalog is in progress: its arguments and locals
CallIdle ==
    /\ mode = "none" /\ all_symbols = FALSE /\ sel = {} /\ pos = 0
    /\ out = <<>> /\ errlog = <<>> /\ written = <<>>
    /\ outcome = [n \in FileNums |-> "none"]

DatIdle ==
    /\ cur = 0 /\ dop = NoDop /\ columns = NoColumns /\ file = NoFile
    /\ fh = "None" /\ offset = 0 /\ max_recs = 0 /\ last_rec = 0
    /\ k = 0 /\ ddl = <<>> /\ raised = "none"

\* lines 452-462: the precision argument is stored, the readers are created
\* (a new object: nothing of an earlier catalog is left), master.load() runs
MasterLoad ==
    /\ MsQuiet
    /\ XQuiet
    /\ \E arg \in CatalogPrecArgs : precision' = SetPrecision(precision, arg)
    /\ \E present \in BOOLEAN :
         IF ~present
         THEN /\ master_exists' = FALSE
              /\ master_fh' = "None"
              /\ master_count' = 0
              /\ pc' = "master"
              /\ exc' = "none"
         ELSE \E n \in (0..MaxMaster) \cup {-1} :
              /\ master_exists' = TRUE
              /\ master_fh' = "open"
              /\ IF n = -1             \* the file is shorter than its header
                 THEN /\ master_count' = 0
                      /\ pc' = "crashed"
                      /\ exc' = "struct.error"
                 ELSE /\ master_count' = n
                      /\ pc' = "master"
                      /\ exc' = "none"
    /\ symbols' = EmptyDict
    /\ table' = EmptyTable
    /\ i' = 0
    /\ s' = NewStock
    /\ emaster_fh' = "unset"
    /\ emaster_count' = 0
    /\ emaster_last' = RecNone
    /\ index_eof' = FALSE
    /\ UNCHANGED <<callVars, datVars, nmVars, flVars, x_precision, prDriverVars, xVars>>

\* mutant: the MASTER loop stores every record, placeholder slots included
MasterLoadSymbol_nofilter ==
    /\ pc = "master"
    /\ i < master_count
    /\ \E rd \in MasterReads :
         /\ index_eof => rd.avail = 0
         /\ LET r == MSMaster_load_symbol(rd.raw, rd.avail)
            IN  IF r.err
                THEN /\ pc' = "crashed"
                     /\ exc' = r.exc
                     /\ UNCHANGED <<symbols, table, i, s, index_eof>>
                ELSE /\ s' = r.val
                     /\ symbols' = DictSet(symbols, r.val.file_number, r.val)
                     /\ table' = DictInsert(table, r.val.file_number)
                     /\ i' = i + 1
                     /\ index_eof' = (rd.avail < MasterRecordSize)
                     /\ UNCHANGED <<pc, exc>>
    /\ UNCHANGED <<master_fh, master_count, emaster_fh, emaster_count,
                   master_exists, emaster_last, callVars, datVars, nmVars, flVars, prVars, xVars>>

\* lines 464-467: one iteration of the MASTER loop; the record is read from
\* what the file holds of it, and nothing follows a record the file ends in
MasterLoadSymbol ==
    /\ pc = "master"
    /\ i < master_count
    /\ \E rd \in MasterReads :
         /\ index_eof => rd.avail = 0
         /\ LET r == MSMaster_load_symbol(rd.raw, rd.avail)
            IN  IF r.err
                THEN /\ pc' = "crashed"
                     /\ exc' = r.exc
                     /\ UNCHANGED <<symbols, table, i, s, index_eof>>
                ELSE /\ s' = r.val
                     /\ IF r.val.file_number > 0
                        THEN /\ symbols' = DictSet(symbols, r.val.file_number, r.val)
                             /\ table' = DictInsert(table, r.val.file_number)
                        ELSE UNCHANGED <<symbols, table>>
                     /\ i' = i + 1
                     /\ index_eof' = (rd.avail < MasterRecordSize)
                     /\ UNCHANGED <<pc, exc>>
    /\ UNCHANGED <<master_fh, master_count, emaster_fh, emaster_count,
                   master_exists, emaster_last, callVars, datVars, nmVars, flVars, prVars, xVars>>

\* the bytes an EMASTER file holds of its header: none, the record count
\* only, or the record count and last_file
EMasterHeaderSizes == {0, 2, 4}

\* a variant in which an absent EMASTER is read as an empty one
EMasterLoad_lenient ==
    /\ pc = "master"
    /\ i >= master_count
    /\ master_fh' = "None"
    /\ \E present \in BOOLEAN :
         IF ~present
         THEN /\ pc' = "emaster"
              /\ exc' = "none"
              /\ UNCHANGED <<emaster_fh, emaster_count>>
         ELSE \E n \in 0..MaxEMaster, size \in EMasterHeaderSizes :
              /\ emaster_fh' = "open"
              /\ emaster_count' = IF size < 2 THEN 0 ELSE n
              /\ IF size < 4
                 THEN /\ pc' = "crashed"
                      /\ exc' = "struct.error"
                 ELSE /\ pc' = "emaster"
                      /\ exc' = "none"
    /\ i' = 0
    /\ index_eof' = FALSE
    /\ UNCHANGED <<symbols, table, s, master_count, master_exists, emaster_last,
                   callVars, datVars, nmVars, flVars, prVars, xVars>>

\* lines 468-469: master.close(), emaster.load(); reconds_count is unpacked
\* from the first two bytes and last_file from the next two (lines 363-364)
EMasterLoad ==
    /\ pc = "master"
    /\ i >= master_count
    /\ master_fh' = "None"
    /\ \E present \in BOOLEAN :
         IF ~present
         THEN /\ pc' = "exited"                \* exit(): SystemExit
              /\ exc' = "SystemExit"
              /\ UNCHANGED <<emaster_fh, emaster_count>>
         ELSE \E n \in 0..MaxEMaster, size \in EMasterHeaderSizes :
              /\ emaster_fh' = "open"
              /\ emaster_count' = IF size < 2 THEN 0 ELSE n
              /\ IF size < 4
                 THEN /\ pc' = "crashed"
                      /\ exc' = "struct.error"
                 ELSE /\ pc' = "emaster"
                      /\ exc' = "none"
    /\ i' = 0
    /\ index_eof' = FALSE
    /\ UNCHANGED <<symbols, table, s, master_count, master_exists, emaster_last,
                   callVars, datVars, nmVars, flVars, prVars, xVars>>

\* mutant: the EMASTER loop stores its record like the MASTER loop does
EMasterLoadSymbol_adds ==
    /\ pc = "emaster"
    /\ i < emaster_count
    /\ \E rd \in EMasterReads :
         /\ index_eof => rd.avail = 0
         /\ LET r == MSEMaster_load_symbol(rd.raw, rd.avail)
            IN  IF r.err
                THEN /\ pc' = "crashed"
                     /\ exc' = r.exc
                     /\ UNCHANGED <<symbols, table, i, s, emaster_last, index_eof>>
                ELSE /\ s' = r.val
                     /\ emaster_last' = rd.raw
                     /\ IF r.val.file_number > 0
                        THEN /\ symbols' = DictSet(symbols, r.val.file_number, r.val)
                             /\ table' = DictInsert(table, r.val.file_number)
                        ELSE UNCHANGED <<symbols, table>>
                     /\ i' = i + 1
                     /\ index_eof' = (rd.avail < EMasterRecordSize)
                     /\ UNCHANGED <<pc, exc>>
    /\ UNCHANGED <<master_fh, master_count, emaster_fh, emaster_count,
                   master_exists, callVars, datVars, nmVars, flVars, prVars, xVars>>

\* lines 471-482: one iteration of the EMASTER loop
EMasterLoadSymbol ==
    /\ pc = "emaster"
    /\ i < emaster_count
    /\ \E rd \in EMasterReads :
         /\ index_eof => rd.avail = 0
         /\ LET r == MSEMaster_load_symbol(rd.raw, rd.avail)
            IN  IF r.err
                THEN /\ pc' = "crashed"
                     /\ exc' = r.exc
                     /\ UNCHANGED <<symbols, table, i, s, emaster_last, index_eof>>
                ELSE /\ s' = r.val
                     /\ emaster_last' = rd.raw
                     /\ IF /\ r.val.file_number > 0
                           /\ r.val.stock_name # ""
                           /\ r.val.file_number \in DOMAIN symbols
                        THEN symbols' = [symbols EXCEPT ![r.val.file_number].stock_name =
                                                           r.val.stock_name]
                        ELSE UNCHANGED symbols
                     /\ UNCHANGED table
                     /\ i' = i + 1
                     /\ index_eof' = (rd.avail < EMasterRecordSize)
                     /\ UNCHANGED <<pc, exc>>
    /\ UNCHANGED <<master_fh, master_count, emaster_fh, emaster_count,
                   master_exists, callVars, datVars, nmVars, flVars, prVars, xVars>>

\* line 483: emaster.close(); __init__ returns, and with it its locals
\* master and emaster and what they had read
EMasterClose ==
    /\ pc = "emaster"
    /\ i >= emaster_count
    /\ emaster_fh' = "None"
    /\ s' = NewStock
    /\ i' = 0
    /\ master_count' = 0
    /\ emaster_count' = 0
    /\ emaster_last' = RecNone
    /\ index_eof' = FALSE
    /\ master_exists' = FALSE
    /\ pc' = "built"
    /\ UNCHANGED <<exc, symbols, table, master_fh,
                   callVars, datVars, nmVars, flVars, prVars, xVars>>

(***************************************************************************)
(* metastock/files.py: DatFile                                             *)
(***************************************************************************)

\* Column.dataSize and DatFile.unknownColumnDataSize
dataSize == 4
unknownColumnDataSize == 4
\* load_columns: the field count of the default column set, the trailing line
DefaultFieldCount == 7
line_padding == 1

DefaultColumns == <<"DATE", "OPEN", "HIGH", "LOW", "CLOSE", "VOL", "OI">>

\* knownMSColumns: the tokens, the name and the class of their column object
IsKnown(tok) == tok \in {"DATE", "TIME", "OPEN", "HIGH", "LOW", "CLOSE", "VOL", "OI"}

\* mutant: the volume column is named after its token
ColumnName_vol(tok) ==
    CASE tok = "DATE" -> "Date"
      [] tok = "TIME" -> "Time"
      [] tok = "OPEN" -> "Open"
      [] tok = "HIGH" -> "High"
      [] tok = "LOW" -> "Low"
      [] tok = "CLOSE" -> "Close"
      [] tok = "VOL" -> "Vol"
      [] tok = "OI" -> "Oi"

ColumnName(tok) ==
    CASE tok = "DATE" -> "Date"
      [] tok = "TIME" -> "Time"
      [] tok = "OPEN" -> "Open"
      [] tok = "HIGH" -> "High"
      [] tok = "LOW" -> "Low"
      [] tok = "CLOSE" -> "Close"
      [] tok = "VOL" -> "Volume"
      [] tok = "OI" -> "Oi"

ColumnClass(tok) ==
    CASE tok = "DATE" -> "DateColumn"
      [] tok = "TIME" -> "TimeColumn"
      [] tok \in {"OPEN", "HIGH", "LOW", "CLOSE"} -> "FloatColumn"
      [] tok \in {"VOL", "OI"} -> "IntColumn"

\* Column.read on four bytes.  A stored value is of one of three kinds:
\* "num" decodes in every column; "zero" (0.0) is no calendar date;
\* "nan" converts neither to a date or time nor to an int.
ColumnReadFails(class, kind) ==
    CASE class = "DateColumn" -> float2date(kind).err
      [] class = "TimeColumn" -> kind = "nan"     \* float2time(0.0) is 00:00
      [] class = "FloatColumn" -> FALSE
      [] class = "IntColumn" -> kind = "nan"


\* the sidecar files: the quoted name of each line ("" when the line does
\* not match the pattern), the last line being the non-data line
DopFiles ==
    { NoDop,
      [present |-> TRUE, lines |-> <<"XX", "TIME", "YY", "END">>],
      [present |-> TRUE, lines |-> <<"DATE", "", "CLOSE", "END">>] }

\* mutant: the field count of the default column set is not checked
load_columns_noassert(stock, d) ==
    IF ~d.present
    THEN [err |-> FALSE, exc |-> "none", columns |-> [set |-> TRUE, cols |-> DefaultColumns]]
    ELSE IF (Len(d.lines) - line_padding) # stock.fields
    THEN [err |-> TRUE, exc |-> "AssertionError", columns |-> NoColumns]
    ELSE LET data == SubSeq(d.lines, 1, Len(d.lines) - line_padding)
         IN  IF \E j \in 1..Len(data) : data[j] = ""
             THEN [err |-> TRUE, exc |-> "AttributeError", columns |-> [set |-> TRUE, cols |-> <<>>]]
             ELSE [err |-> FALSE, exc |-> "none", columns |-> [set |-> TRUE, cols |-> data]]

\* DatFile.load_columns
load_columns(stock, d) ==
    IF ~d.present
    THEN IF stock.fields = DefaultFieldCount
         THEN [err |-> FALSE, exc |-> "none",
               columns |-> [set |-> TRUE, cols |-> DefaultColumns]]
         ELSE [err |-> TRUE, exc |-> "AssertionError", columns |-> NoColumns]
    ELSE IF (Len(d.lines) - line_padding) # stock.fields
    THEN [err |-> TRUE, exc |-> "AssertionError", columns |-> NoColumns]
    ELSE LET data == SubSeq(d.lines, 1, Len(d.lines) - line_padding)
         IN  IF \E j \in 1..Len(data) : data[j] = ""
             THEN \* match is None: self.columns holds the names before it
                  LET bad == CHOOSE j \in 1..Len(data) :
                                 data[j] = "" /\ \A h \in 1..(j - 1) : data[h] # ""
                  IN  [err |-> TRUE, exc |-> "AttributeError",
                       columns |-> [set |-> TRUE, cols |-> SubSeq(data, 1, bad - 1)]]
             ELSE [err |-> FALSE, exc |-> "none", columns |-> [set |-> TRUE, cols |-> data]]

\* the data files F<n>.DAT a stock with this layout may meet: absent, cut
\* inside the header, or a header (max, last) followed by the padding and
\* stored whole records: none for last <= 1, one more than declared for a
\* last in between, and for last = MaxLast as many as the header declares
\* (last - 1) or one fewer; cut = 2 takes the last two bytes of the last
\* declared record away; max is 10, or as small as last in a full file
DataStart(fields) == 4 + (fields - 1) * 4

StoredChoices ==
    {c \in [last : 0..MaxLast, stored : 0..MaxStored, cut : {0, 2}] :
        /\ c.stored >= c.last - 2
        /\ c.stored <= c.last
        /\ c.last <= 1 => c.stored = 0
        /\ (c.last > 1 /\ c.last < MaxLast) => c.stored = c.last
        /\ c.cut = 2 => (c.stored = c.last - 1 /\ c.stored >= 1)}

DataFiles(fields, ncols) ==
    {NoFile, [present |-> TRUE, size |-> 2, max |-> 3, last |-> 0]} \cup
    { [present |-> TRUE,
       size |-> DataStart(fields) + 4 * ncols * c.stored - c.cut,
       max |-> 10, last |-> c.last] : c \in StoredChoices } \cup
    { [present |-> TRUE,
       size |-> DataStart(fields) + 4 * ncols * (MaxLast - 1),
       max |-> MaxLast, last |-> MaxLast] }

\* a stored record: the kind of the value each column holds, at most one
\* of them (the first, the second or the sixth column) being no ordinary
\* number
RecordContents(ncols) ==
    {[j \in 1..ncols |-> "num"]} \cup
    {[j \in 1..ncols |-> IF j = b THEN kd ELSE "num"] :
        b \in (1..ncols) \cap {1, 2, 6}, kd \in {"zero", "nan"}}

\* col.format(col.read(bytes)), kept as the place the bytes were read from;
\* a float column is written with FloatColumn.precision decimals
ColumnValue(tok, fno, off, prec) ==
    IF ColumnClass(tok) = "FloatColumn"
    THEN [f |-> fno, at |-> off, dec |-> prec]
    ELSE [f |-> fno, at |-> off]

\* file_handle.read(n) at position off of a file of size bytes: the bytes got
ReadLen(size, off, n) == Min(n, Max(0, size - off))

\* mutant: an unknown column is ignored without moving the file position
RECURSIVE ReadColumns_noskip(_, _, _, _, _, _, _, _)
ReadColumns_noskip(cols, j, off, data_dict, size, rec, fno, prec) ==
    IF j > Len(cols)
    THEN [err |-> FALSE, exc |-> "none", off |-> off, data_dict |-> data_dict]
    ELSE IF ~IsKnown(cols[j])
    THEN ReadColumns_noskip(cols, j + 1, off, data_dict, size, rec, fno, prec)
    ELSE LET got == ReadLen(size, off, dataSize)
         IN  IF got < 4
             THEN [err |-> TRUE, exc |-> "struct.error", off |-> off + got,
                   data_dict |-> data_dict]
             ELSE IF ColumnReadFails(ColumnClass(cols[j]), rec[j])
             THEN [err |-> TRUE, exc |-> "ValueError", off |-> off + got,
                   data_dict |-> data_dict]
             ELSE ReadColumns_noskip(cols, j + 1, off + got,
                              (ColumnName(cols[j]) :> ColumnValue(cols[j], fno, off, prec)) @@ data_dict,
                              size, rec, fno, prec)

\* mutant: an unknown column is skipped but leaves a key (its token) behind
RECURSIVE ReadColumns_unknownkey(_, _, _, _, _, _, _, _)
ReadColumns_unknownkey(cols, j, off, data_dict, size, rec, fno, prec) ==
    IF j > Len(cols)
    THEN [err |-> FALSE, exc |-> "none", off |-> off, data_dict |-> data_dict]
    ELSE IF ~IsKnown(cols[j])
    THEN ReadColumns_unknownkey(cols, j + 1, off + unknownColumnDataSize,
                                (cols[j] :> [f |-> fno, at |-> off]) @@ data_dict,
                                size, rec, fno, prec)
    ELSE LET got == ReadLen(size, off, dataSize)
         IN  IF got < 4
             THEN [err |-> TRUE, exc |-> "struct.error", off |-> off + got,
                   data_dict |-> data_dict]
             ELSE IF ColumnReadFails(ColumnClass(cols[j]), rec[j])
             THEN [err |-> TRUE, exc |-> "ValueError", off |-> off + got,
                   data_dict |-> data_dict]
             ELSE ReadColumns_unknownkey(cols, j + 1, off + got,
                              (ColumnName(cols[j]) :> ColumnValue(cols[j], fno, off, prec)) @@ data_dict,
                              size, rec, fno, prec)

\* lines 237-250: the columns of one record, from column j on, each decoded
\* from its own four bytes.  rec is the record stored at this place, fno the
\* file it is read from, prec the precision of the float columns.
RECURSIVE ReadColumns(_, _, _, _, _, _, _, _)
ReadColumns(cols, j, off, data_dict, size, rec, fno, prec) ==
    IF j > Len(cols)
    THEN [err |-> FALSE, exc |-> "none", off |-> off, data_dict |-> data_dict]
    ELSE IF ~IsKnown(cols[j])
    THEN ReadColumns(cols, j + 1, off + unknownColumnDataSize, data_dict, size, rec, fno, prec)
    ELSE LET got == ReadLen(size, off, dataSize)
         IN  IF got < 4
             THEN [err |-> TRUE, exc |-> "struct.error", off |-> off + got,
                   data_dict |-> data_dict]
             ELSE IF ColumnReadFails(ColumnClass(cols[j]), rec[j])
             THEN [err |-> TRUE, exc |-> "ValueError", off |-> off + got,
                   data_dict |-> data_dict]
             ELSE ReadColumns(cols, j + 1, off + got,
                              (ColumnName(cols[j]) :> ColumnValue(cols[j], fno, off, prec)) @@ data_dict,
                              size, rec, fno, prec)

(***************************************************************************)
(* MetastockFiles.output_data_list and dump_stock_to_list.                 *)
(***************************************************************************)
Calls ==
    { [all |-> TRUE, symbols |-> {}],
      [all |-> FALSE, symbols |-> {AB}],
      [all |-> FALSE, symbols |-> {ABC, B1}] }

\* line 525: output_data_list is called on the catalog (any number of times)
CallOutput ==
    /\ pc = "built"
    /\ XQuiet
    /\ \E c \in Calls :
         /\ all_symbols' = c.all
         /\ sel' = c.symbols
    /\ mode' = "list"
    /\ pos' = 0
    /\ out' = <<>>
    /\ pc' = "iter"
    /\ UNCHANGED <<exc, buildVars, errlog, written, outcome, datVars, nmVars, flVars, prVars, xVars>>

Selected(stock) == all_symbols \/ stock.stock_symbol \in sel

\* lines 526-527: the next stock of self.symbols.values(); line 277: DatFile(stock)
SelectStock ==
    /\ pc = "iter"
    /\ mode = "list"
    /\ pos < Len(order)
    /\ LET stock == symbols[order[pos + 1]]
       IN  IF Selected(stock)
           THEN /\ cur' = stock.file_number
                /\ dop' = NoDop /\ columns' = NoColumns /\ file' = NoFile
                /\ fh' = "None" /\ offset' = 0 /\ max_recs' = 0 /\ last_rec' = 0
                /\ k' = 0 /\ ddl' = <<>> /\ raised' = "none"
                /\ pc' = "dump"
                /\ UNCHANGED pos
           ELSE /\ pos' = pos + 1
                /\ UNCHANGED <<pc, datVars>>
    /\ UNCHANGED <<exc, buildVars, mode, all_symbols, sel, out, errlog, written, outcome,
                   nmVars, flVars, prVars, xVars>>

\* dump_to_list line 32: load_columns.  When it raises, dump_to_list prints,
\* its finally returns the unassigned data_dict_list, dump_stock_to_list
\* prints and returns its own unassigned data_dict_list: UnboundLocalError
\* leaves output_data_list.
LoadColumns ==
    /\ pc = "dump"
    /\ mode = "list"
    /\ \E d \in DopFiles :
         LET stock == symbols[cur]
             r == load_columns(stock, d)
         IN  /\ dop' = d
             /\ columns' = r.columns
             /\ IF r.err
                THEN /\ errlog' = errlog \o <<stock.stock_symbol, stock.stock_symbol>>
                     /\ outcome' = [outcome EXCEPT ![cur] = "layout"]
                     /\ pc' = "failed"
                     /\ exc' = "UnboundLocalError"
                ELSE /\ pc' = "open"
                     /\ UNCHANGED <<errlog, outcome, exc>>
    /\ UNCHANGED <<buildVars, mode, all_symbols, sel, pos, out, written, cur, file, fh, offset,
                   max_recs, last_rec, k, ddl, raised, nmVars, flVars, prVars, xVars>>

\* candles_to_list lines 208-228: open, the header, the padding
OpenData ==
    /\ pc = "open"
    /\ mode = "list"
    /\ \E f \in DataFiles(symbols[cur].fields, Len(columns.cols)) :
         /\ file' = f
         /\ IF ~f.present
            THEN /\ raised' = "IOError"
                 /\ UNCHANGED <<fh, offset, max_recs, last_rec>>
            ELSE /\ fh' = "open"
                 /\ IF f.size < 2
                    THEN /\ raised' = "struct.error"
                         /\ offset' = f.size
                         /\ UNCHANGED <<max_recs, last_rec>>
                    ELSE IF f.size < 4
                    THEN /\ raised' = "struct.error"
                         /\ offset' = f.size
                         /\ max_recs' = f.max
                         /\ UNCHANGED last_rec
                    ELSE /\ raised' = "none"
                         /\ max_recs' = f.max
                         /\ last_rec' = f.last
                         /\ offset' = 4 + (symbols[cur].fields - 1) * 4
    /\ pc' = "records"
    /\ UNCHANGED <<exc, buildVars, callVars, cur, dop, columns, k, ddl, nmVars, flVars, prVars, xVars>>

\* mutant: the loop runs over the max-record-count field of the header
RecordRange_max(maxr, lastr) == maxr - 1

\* line 232: the number of iterations of range(self.last_rec - 1)
RecordRange(maxr, lastr) == lastr - 1

\* lines 232-252: one record of range(self.last_rec - 1)
ReadRecord ==
    /\ pc = "records"
    /\ mode = "list"
    /\ raised = "none"
    /\ k < RecordRange(max_recs, last_rec)
    /\ \E rec \in RecordContents(Len(columns.cols)) :
         LET sym == symbols[cur].stock_symbol
             r == ReadColumns(columns.cols, 1, offset, ("Symbol" :> sym),
                              file.size, rec, cur, precision)
         IN  /\ offset' = r.off
             /\ IF r.err
                THEN /\ raised' = r.exc
                     /\ UNCHANGED <<k, ddl>>
                ELSE /\ ddl' = Append(ddl, r.data_dict)
                     /\ k' = k + 1
                     /\ UNCHANGED raised
    /\ UNCHANGED <<pc, exc, buildVars, callVars, cur, dop, columns, file, fh,
                   max_recs, last_rec, nmVars, flVars, prVars, xVars>>

\* the read of one stock is over: the loop ended or an exception is in flight
ReadOver == raised # "none" \/ k >= RecordRange(max_recs, last_rec)

\* dump_stock_to_list / dump_stock_to_file return: the DatFile they created
\* is gone, and with it what it had read
DropDatFile ==
    /\ dop' = NoDop /\ columns' = NoColumns /\ file' = NoFile
    /\ offset' = 0 /\ max_recs' = 0 /\ last_rec' = 0
    /\ k' = 0 /\ ddl' = <<>> /\ raised' = "none"

\* lines 255-262: the finally closes the file and returns data_dict_list (an
\* exception in flight is dropped); dump_to_list and dump_stock_to_list
\* return it; line 528 appends it
FinishStock ==
    /\ pc = "records"
    /\ mode = "list"
    /\ ReadOver
    /\ fh' = IF fh = "open" THEN "closed" ELSE fh
    /\ out' = out \o ddl
    /\ pos' = pos + 1
    /\ outcome' = [outcome EXCEPT ![cur] =
                      IF raised = "none" THEN "complete"
                      ELSE IF ~file.present THEN "missing" ELSE "error"]
    /\ DropDatFile
    /\ pc' = "iter"
    /\ UNCHANGED <<exc, buildVars, mode, all_symbols, sel, errlog, written, cur,
                   nmVars, flVars, prVars, xVars>>

\* the call ends: its arguments and locals, and the DatFile, are gone
ResetCall ==
    /\ mode' = "none" /\ all_symbols' = FALSE /\ sel' = {} /\ pos' = 0
    /\ out' = <<>> /\ errlog' = <<>> /\ written' = <<>>
    /\ outcome' = [n \in FileNums |-> "none"]
    /\ cur' = 0 /\ dop' = NoDop /\ columns' = NoColumns /\ file' = NoFile
    /\ fh' = "None" /\ offset' = 0 /\ max_recs' = 0 /\ last_rec' = 0
    /\ k' = 0 /\ ddl' = <<>> /\ raised' = "none"

\* the loop of output_data_list is through: line 529 is about to return out
Returning == pc = "iter" /\ mode = "list" /\ pos >= Len(order)

\* line 529: data_dict_list goes to the caller, the catalog can be used again
ReturnOutput ==
    /\ Returning
    /\ ResetCall
    /\ pc' = "built"
    /\ UNCHANGED <<exc, buildVars, nmVars, flVars, prVars, xVars>>

(***************************************************************************)
(* MetastockFiles.output_ascii and dump_stock_to_file: every selected      *)
(* stock is written to <symbol>.TXT.  DatFile.dump has no finally block:   *)
(* an exception of load_columns or dump_candles is printed once, and the   *)
(* loop of output_ascii goes on.                                           *)
(***************************************************************************)
\* line 514: output_ascii is called on the catalog
OutputAscii ==
    /\ pc = "built"
    /\ XQuiet
    /\ \E c \in Calls :
         /\ all_symbols' = c.all
         /\ sel' = c.symbols
    /\ mode' = "ascii"
    /\ pos' = 0
    /\ pc' = "iter"
    /\ UNCHANGED <<exc, buildVars, out, errlog, written, outcome, datVars,
                   nmVars, flVars, prVars, xVars>>

\* lines 514-516: the next stock of self.symbols.values(); line 268: DatFile(stock)
AsciiSelectStock ==
    /\ pc = "iter"
    /\ mode = "ascii"
    /\ pos < Len(order)
    /\ LET stock == symbols[order[pos + 1]]
       IN  IF Selected(stock)
           THEN /\ cur' = stock.file_number
                /\ dop' = NoDop /\ columns' = NoColumns /\ file' = NoFile
                /\ fh' = "None" /\ offset' = 0 /\ max_recs' = 0 /\ last_rec' = 0
                /\ k' = 0 /\ ddl' = <<>> /\ raised' = "none"
                /\ pc' = "dump"
                /\ UNCHANGED pos
           ELSE /\ pos' = pos + 1
                /\ UNCHANGED <<pc, datVars>>
    /\ UNCHANGED <<exc, buildVars, mode, all_symbols, sel, out, errlog, written, outcome,
                   nmVars, flVars, prVars, xVars>>

\* dump lines 23-28: load_columns; when it raises, the except prints and
\* dump returns: the stock is done
AsciiLoadColumns ==
    /\ pc = "dump"
    /\ mode = "ascii"
    /\ \E d \in DopFiles :
         LET stock == symbols[cur]
             r == load_columns(stock, d)
         IN  IF r.err
             THEN /\ errlog' = Append(errlog, stock.stock_symbol)
                  /\ outcome' = [outcome EXCEPT ![cur] = "layout"]
                  /\ pos' = pos + 1
                  /\ pc' = "iter"
                  /\ UNCHANGED <<dop, columns>>
             ELSE /\ dop' = d
                  /\ columns' = r.columns
                  /\ pc' = "open"
                  /\ UNCHANGED <<errlog, outcome, pos>>
    /\ UNCHANGED <<exc, buildVars, mode, all_symbols, sel, out, written, cur, file, fh, offset,
                   max_recs, last_rec, k, ddl, raised, nmVars, flVars, prVars, xVars>>

\* dump_candles lines 155-173: open, the header, the padding; then the text
\* file is opened and its header line written
AsciiOpenData ==
    /\ pc = "open"
    /\ mode = "ascii"
    /\ \E f \in DataFiles(symbols[cur].fields, Len(columns.cols)) :
         /\ file' = f
         /\ IF ~f.present
            THEN /\ raised' = "IOError"
                 /\ UNCHANGED <<fh, offset, max_recs, last_rec, written>>
            ELSE /\ fh' = "open"
                 /\ IF f.size < 2
                    THEN /\ raised' = "struct.error"
                         /\ offset' = f.size
                         /\ UNCHANGED <<max_recs, last_rec, written>>
                    ELSE IF f.size < 4
                    THEN /\ raised' = "struct.error"
                         /\ offset' = f.size
                         /\ max_recs' = f.max
                         /\ UNCHANGED <<last_rec, written>>
                    ELSE /\ raised' = "none"
                         /\ max_recs' = f.max
                         /\ last_rec' = f.last
                         /\ offset' = 4 + (symbols[cur].fields - 1) * 4
                         /\ written' = Append(written, symbols[cur].stock_symbol)
    /\ pc' = "records"
    /\ UNCHANGED <<exc, buildVars, mode, all_symbols, sel, pos, out, errlog, outcome,
                   cur, dop, columns, k, ddl, nmVars, flVars, prVars, xVars>>

\* lines 176-191: one row of range(self.last_rec - 1)
AsciiWriteRow ==
    /\ pc = "records"
    /\ mode = "ascii"
    /\ raised = "none"
    /\ k < RecordRange(max_recs, last_rec)
    /\ \E rec \in RecordContents(Len(columns.cols)) :
         LET sym == symbols[cur].stock_symbol
             r == ReadColumns(columns.cols, 1, offset, ("Symbol" :> sym),
                              file.size, rec, cur, precision)
         IN  /\ offset' = r.off
             /\ IF r.err
                THEN /\ raised' = r.exc
                     /\ UNCHANGED <<k, ddl>>
                ELSE /\ ddl' = Append(ddl, r.data_dict)
                     /\ k' = k + 1
                     /\ UNCHANGED raised
    /\ UNCHANGED <<pc, exc, buildVars, callVars, cur, dop, columns, file, fh,
                   max_recs, last_rec, nmVars, flVars, prVars, xVars>>

\* lines 192-196: the finally closes both files, the exception goes on to
\* dump (lines 26-28), which prints it; the stock is done
AsciiFinishStock ==
    /\ pc = "records"
    /\ mode = "ascii"
    /\ ReadOver
    /\ fh' = IF fh = "open" THEN "closed" ELSE fh
    /\ errlog' = IF raised # "none" THEN Append(errlog, symbols[cur].stock_symbol) ELSE errlog
    /\ pos' = pos + 1
    /\ outcome' = [outcome EXCEPT ![cur] =
                      IF raised = "none" THEN "complete"
                      ELSE IF ~file.present THEN "missing" ELSE "error"]
    /\ DropDatFile
    /\ pc' = "iter"
    /\ UNCHANGED <<exc, buildVars, mode, all_symbols, sel, out, written, cur,
                   nmVars, flVars, prVars, xVars>>

\* line 516: the loop of output_ascii is through, the call returns None
ReturnAscii ==
    /\ pc = "iter"
    /\ mode = "ascii"
    /\ pos >= Len(order)
    /\ ResetCall
    /\ pc' = "built"
    /\ UNCHANGED <<exc, buildVars, nmVars, flVars, prVars, xVars>>

(***************************************************************************)
(* metastockX/mod_files.py: MSEMasterFile and DataFileInfo.  The catalog   *)
(* of this package is built and read by the same thread as the one of      *)
(* metastock/files.py (ms2pandas.py lines 39-45).                          *)
(***************************************************************************)
\* the entries an XMASTER file holds, in file order
XEntry(j) ==
    IF j = 1 THEN [file_num |-> 7, stock_symbol |-> ABC]
    ELSE [file_num |-> 2, stock_symbol |-> B1]

XEntries(n) == [j \in 1..n |-> XEntry(j)]

\* the sidecar files of the metastockX reader (quoted name per line, ""
\* when the line does not match); the last line is dropped by lines[:-1]
XDopFiles ==
    { NoDop,
      [present |-> TRUE, lines |-> <<"END">>],
      [present |-> TRUE, lines |-> <<"DATE", "", "END">>],
      [present |-> TRUE, lines |-> <<"DATE", "XX", "END">>],
      [present |-> TRUE, lines |-> DefaultColumns \o <<"END">>] }

\* DataFileInfo._load_columns: no default layout, no field count check
DataFileInfo_load_columns(d) ==
    IF ~d.present
    THEN [err |-> TRUE, exc |-> "IOError", columns |-> NoColumns]
    ELSE LET data == SubSeq(d.lines, 1, Len(d.lines) - 1)
         IN  IF \E j \in 1..Len(data) : data[j] = ""
             THEN LET bad == CHOOSE j \in 1..Len(data) :
                                 data[j] = "" /\ \A h \in 1..(j - 1) : data[h] # ""
                  IN  [err |-> TRUE, exc |-> "AttributeError",
                       columns |-> [set |-> TRUE, cols |-> SubSeq(data, 1, bad - 1)]]
             ELSE [err |-> FALSE, exc |-> "none", columns |-> [set |-> TRUE, cols |-> data]]

\* the data files F<n>.MWD the reader may meet for a layout of ncols columns:
\* absent, cut inside the header or inside the padding, or whole records
XDataFiles(ncols) ==
    {NoFile, [present |-> TRUE, size |-> 2, max |-> 3, last |-> 0]} \cup
    (IF ncols >= 2 THEN {[present |-> TRUE, size |-> 6, max |-> 3, last |-> 2]} ELSE {}) \cup
    { [present |-> TRUE,
       size |-> DataStart(Max(ncols, 1)) + 4 * ncols * c.stored - c.cut,
       max |-> 10, last |-> c.last] : c \in StoredChoices }

\* lines 229-247: the columns of one record, each decoded from its own four
\* bytes; an unknown column is read and dropped (a read at the end of the
\* file returns fewer bytes, or none)
RECURSIVE XReadColumns(_, _, _, _, _, _, _, _)
XReadColumns(cols, j, off, data_dict, size, rec, fno, prec) ==
    IF j > Len(cols)
    THEN [err |-> FALSE, exc |-> "none", off |-> off, data_dict |-> data_dict]
    ELSE IF ~IsKnown(cols[j])
    THEN XReadColumns(cols, j + 1, off + ReadLen(size, off, unknownColumnDataSize),
                      data_dict, size, rec, fno, prec)
    ELSE LET got == ReadLen(size, off, dataSize)
         IN  IF got < 4
             THEN [err |-> TRUE, exc |-> "struct.error", off |-> off + got,
                   data_dict |-> data_dict]
             ELSE IF ColumnReadFails(ColumnClass(cols[j]), rec[j])
             THEN [err |-> TRUE, exc |-> "ValueError", off |-> off + got,
                   data_dict |-> data_dict]
             ELSE XReadColumns(cols, j + 1, off + got,
                               (ColumnName(cols[j]) :> ColumnValue(cols[j], fno, off, prec))
                                   @@ data_dict,
                               size, rec, fno, prec)

\* self.stocks: the class attribute None, or the list built by __init__
NoStocks == [set |-> FALSE, list |-> <<>>]

\* no call on the metastockX catalog is in progress
XCallIdle ==
    /\ x_mode = "none" /\ x_all_symbols = FALSE /\ x_sel = {} /\ x_pos = 0
    /\ x_out = <<>> /\ x_errlog = <<>> /\ x_written = <<>>

XDatIdle ==
    /\ x_cur = 0 /\ x_dop = NoDop /\ x_columns = NoColumns /\ x_file = NoFile
    /\ x_offset = 0 /\ x_num_fields = 0 /\ x_last_rec = 0
    /\ x_k = 0 /\ x_ddl = <<>> /\ x_raised = "none"

\* the XMASTER files the constructor may meet: none, or a header that
\* declares files_no entries in a file of size bytes.  A header takes 150
\* bytes and so does an entry; a file is cut inside the header (12, 22), at
\* the start of an entry (0 bytes of it), inside its fields (40) or inside
\* its trailing filler (130).
XHeaderSize == 150
XEntrySize == 150
NoXMaster == [present |-> FALSE, size |-> 0, files_no |-> 0]
XMasterFiles ==
    {NoXMaster} \cup
    {[present |-> TRUE, size |-> sz, files_no |-> n] :
        n \in 0..MaxXEntries, sz \in {12, 22}} \cup
    {[present |-> TRUE, size |-> XHeaderSize + XEntrySize * c.whole + c.more, files_no |-> c.n] :
        c \in {d \in [n : 0..MaxXEntries, whole : 0..MaxXEntries, more : {0, 40, 130}] :
                   d.whole + (IF d.more > 0 THEN 1 ELSE 0) <= d.n}}

\* lines 366-368 and _read_file_info (297-333): the entries are read one
\* after the other from position at.  At the end of the file read() returns
\* fewer bytes or none: an entry of which the symbol field has no byte
\* (fewer than 2 bytes left) raises IndexError in convertSymbolName (line
\* 308), one that is cut before the end of last_date (120 bytes) raises
\* struct.error in an unpack, and one cut in the 30 bytes after it is read
\* as a whole entry.
RECURSIVE XReadFileInfos(_, _, _, _)
XReadFileInfos(size, at, left, acc) ==
    IF left = 0
    THEN [exc |-> "none", stocks |-> [set |-> TRUE, list |-> acc]]
    ELSE IF size - at < 2
    THEN [exc |-> "IndexError", stocks |-> [set |-> TRUE, list |-> acc]]
    ELSE IF size - at < 120
    THEN [exc |-> "struct.error", stocks |-> [set |-> TRUE, list |-> acc]]
    ELSE XReadFileInfos(size, Min(size, at + XEntrySize), left - 1,
                        Append(acc, XEntry(Len(acc) + 1)))

\* lines 351-368: the three counts of the header are unpacked from the
\* bytes 10-12, 14-16 and 18-20 (struct.error when one of them is short,
\* self.stocks still the class attribute None), the rest of the header is
\* skipped, self.stocks becomes [] and the entries are read
MSEMasterFile_read(f) ==
    IF f.size < 20
    THEN [exc |-> "struct.error", stocks |-> NoStocks]
    ELSE XReadFileInfos(f.size, Min(f.size, XHeaderSize), f.files_no, <<>>)

\* MSEMasterFile.__init__ (lines 341-370): the precision argument is stored;
\* without an XMASTER file the object is built with master_file False and
\* stocks left None; otherwise the header and files_no entries are read and
\* the file is closed.  An exception of a read ends the constructor with the
\* handle left open.
XConstruct ==
    /\ XQuiet
    /\ MsQuiet
    /\ \E arg \in CatalogPrecArgs : x_precision' = SetPrecision(x_precision, arg)
    /\ \E f \in XMasterFiles :
         IF ~f.present
         THEN /\ x_master_file' = FALSE
              /\ x_stocks' = NoStocks
              /\ x_fh' = "None"
              /\ x_exc' = "none"
              /\ x_pc' = "xbuilt"
         ELSE LET r == MSEMasterFile_read(f)
              IN  /\ x_master_file' = TRUE
                  /\ x_stocks' = r.stocks
                  /\ x_exc' = r.exc
                  /\ x_fh' = IF r.exc = "none" THEN "closed" ELSE "open"
                  /\ x_pc' = IF r.exc = "none" THEN "xbuilt" ELSE "xcrashed"
    /\ UNCHANGED <<xCallVars, xDatVars, msVars, nmVars, flVars, precision, prDriverVars>>

\* the call ends: its arguments and locals are gone; the entry that was
\* being converted is no longer followed
XResetCall ==
    /\ x_mode' = "none" /\ x_all_symbols' = FALSE /\ x_sel' = {} /\ x_pos' = 0
    /\ x_out' = <<>> /\ x_errlog' = <<>> /\ x_written' = <<>>
    /\ x_cur' = 0 /\ x_dop' = NoDop /\ x_columns' = NoColumns /\ x_file' = NoFile
    /\ x_offset' = 0 /\ x_num_fields' = 0 /\ x_last_rec' = 0
    /\ x_k' = 0 /\ x_ddl' = <<>> /\ x_raised' = "none"

\* lines 403-405: output_data_list is called; without an XMASTER file the
\* empty list is all there is to return
XOutputDataList ==
    /\ x_pc = "xbuilt"
    /\ MsQuiet
    /\ \E c \in Calls :
         /\ x_all_symbols' = c.all
         /\ x_sel' = c.symbols
    /\ x_mode' = "list"
    /\ x_out' = <<>>
    /\ x_pos' = 0
    /\ x_pc' = "xiter"
    /\ UNCHANGED <<xCatVars, x_errlog, x_written, xDatVars, msVars, nmVars, flVars, prVars>>

XSelected(stock) == x_all_symbols \/ stock.stock_symbol \in x_sel

\* lines 407-409: the next entry of self.stocks
XSelectStock ==
    /\ x_pc = "xiter"
    /\ x_mode = "list"
    /\ x_master_file
    /\ x_pos < Len(x_stocks.list)
    /\ IF XSelected(x_stocks.list[x_pos + 1])
       THEN /\ x_cur' = x_pos + 1
            /\ x_dop' = NoDop /\ x_columns' = NoColumns /\ x_file' = NoFile
            /\ x_offset' = 0 /\ x_num_fields' = 0 /\ x_last_rec' = 0
            /\ x_k' = 0 /\ x_ddl' = <<>> /\ x_raised' = "none"
            /\ x_pc' = "convert"
            /\ UNCHANGED x_pos
       ELSE /\ x_pos' = x_pos + 1
            /\ UNCHANGED <<x_pc, xDatVars>>
    /\ UNCHANGED <<xCatVars, x_mode, x_all_symbols, x_sel, x_out, x_errlog, x_written,
                   msVars, nmVars, flVars, prVars>>

\* convert2list lines 278-288: _load_columns.  When it raises, the except
\* prints and the finally returns the unassigned data_dict_list:
\* UnboundLocalError leaves output_data_list.
XLoadColumns ==
    /\ x_pc = "convert"
    /\ x_mode = "list"
    /\ \E d \in XDopFiles :
         LET r == DataFileInfo_load_columns(d)
         IN  /\ x_dop' = d
             /\ x_columns' = r.columns
             /\ IF r.err
                THEN /\ x_errlog' = Append(x_errlog, x_stocks.list[x_cur].stock_symbol)
                     /\ x_pc' = "failed"
                     /\ x_exc' = "UnboundLocalError"
                ELSE /\ x_pc' = "open"
                     /\ UNCHANGED <<x_errlog, x_exc>>
    /\ UNCHANGED <<x_master_file, x_stocks, x_fh, x_mode, x_all_symbols, x_sel, x_pos, x_out,
                   x_written, x_cur, x_file, x_offset, x_num_fields, x_last_rec, x_k, x_ddl,
                   x_raised, msVars, nmVars, flVars, prVars>>

\* candles_to_list lines 203-210: open, the header, the padding
XOpenData ==
    /\ x_pc = "open"
    /\ x_mode = "list"
    /\ \E f \in XDataFiles(Len(x_columns.cols)) :
         /\ x_file' = f
         /\ IF ~f.present
            THEN /\ x_raised' = "IOError"
                 /\ UNCHANGED <<x_offset, x_num_fields, x_last_rec>>
            ELSE IF f.size < 4
            THEN /\ x_raised' = "struct.error"
                 /\ x_offset' = f.size
                 /\ UNCHANGED <<x_num_fields, x_last_rec>>
            ELSE /\ x_raised' = "none"
                 /\ x_last_rec' = f.last
                 /\ x_num_fields' = Len(x_columns.cols)
                 /\ x_offset' = IF Len(x_columns.cols) = 0
                                THEN f.size         \* read(-4) reads to the end
                                ELSE 4 + ReadLen(f.size, 4, (Len(x_columns.cols) - 1) * 4)
    /\ x_pc' = "records"
    /\ UNCHANGED <<xCatVars, xCallVars, x_cur, x_dop, x_columns, x_k, x_ddl,
                   msVars, nmVars, flVars, prVars>>

\* lines 229-247: one record of xrange(self.last_rec - 1)
XReadRecord ==
    /\ x_pc = "records"
    /\ x_mode = "list"
    /\ x_raised = "none"
    /\ x_k < x_last_rec - 1
    /\ \E rec \in RecordContents(Len(x_columns.cols)) :
         LET stock == x_stocks.list[x_cur]
             r == XReadColumns(x_columns.cols, 1, x_offset,
                               ("Symbol" :> stock.stock_symbol),
                               x_file.size, rec, stock.file_num, x_precision)
         IN  /\ x_offset' = r.off
             /\ IF r.err
                THEN /\ x_raised' = r.exc
                     /\ UNCHANGED <<x_k, x_ddl>>
                ELSE /\ x_ddl' = Append(x_ddl, r.data_dict)
                     /\ x_k' = x_k + 1
                     /\ UNCHANGED x_raised
    /\ UNCHANGED <<x_pc, xCatVars, xCallVars, x_cur, x_dop, x_columns, x_file, x_num_fields,
                   x_last_rec, msVars, nmVars, flVars, prVars>>

\* the read of one entry is over: the loop ended or an exception is in flight
XReadOver == x_raised # "none" \/ x_k >= x_last_rec - 1

\* convert2list / convert2ascii return: their locals are gone, and what the
\* entry keeps (columns, num_fields, last_rec) is not followed further, as
\* every conversion sets these before it reads them
XDropEntry ==
    /\ x_dop' = NoDop /\ x_columns' = NoColumns /\ x_file' = NoFile
    /\ x_offset' = 0 /\ x_num_fields' = 0 /\ x_last_rec' = 0
    /\ x_k' = 0 /\ x_ddl' = <<>> /\ x_raised' = "none"

\* lines 249-256 and 286-288: the finally blocks return data_dict_list,
\* which output_data_list (line 409) adds to its own list
XFinish ==
    /\ x_pc = "records"
    /\ x_mode = "list"
    /\ XReadOver
    /\ x_pc' = "xiter"
    /\ x_pos' = x_pos + 1
    /\ x_out' = x_out \o x_ddl
    /\ XDropEntry
    /\ UNCHANGED <<xCatVars, x_mode, x_all_symbols, x_sel, x_errlog, x_written, x_cur,
                   msVars, nmVars, flVars, prVars>>

\* output_data_list is about to return x_out (line 405 or line 411)
XReturning ==
    /\ x_pc = "xiter" /\ x_mode = "list"
    /\ ~x_master_file \/ x_pos >= Len(x_stocks.list)

\* lines 405 and 411: data_dict_list goes to the caller
XReturnOutput ==
    /\ XReturning
    /\ XResetCall
    /\ x_pc' = "xbuilt"
    /\ UNCHANGED <<xCatVars, msVars, nmVars, flVars, prVars>>

\* lines 390-391: output_ascii is called; without an XMASTER file it
\* returns at once
XOutputAscii ==
    /\ x_pc = "xbuilt"
    /\ MsQuiet
    /\ \E c \in Calls :
         /\ x_all_symbols' = c.all
         /\ x_sel' = c.symbols
    /\ x_mode' = "ascii"
    /\ x_pos' = 0
    /\ x_pc' = "xiter"
    /\ UNCHANGED <<xCatVars, x_out, x_errlog, x_written, xDatVars,
                   msVars, nmVars, flVars, prVars>>

\* lines 392-394: the next entry of self.stocks
XAsciiSelectStock ==
    /\ x_pc = "xiter"
    /\ x_mode = "ascii"
    /\ x_master_file
    /\ x_pos < Len(x_stocks.list)
    /\ IF XSelected(x_stocks.list[x_pos + 1])
       THEN /\ x_cur' = x_pos + 1
            /\ x_dop' = NoDop /\ x_columns' = NoColumns /\ x_file' = NoFile
            /\ x_offset' = 0 /\ x_num_fields' = 0 /\ x_last_rec' = 0
            /\ x_k' = 0 /\ x_ddl' = <<>> /\ x_raised' = "none"
            /\ x_pc' = "convert"
            /\ UNCHANGED x_pos
       ELSE /\ x_pos' = x_pos + 1
            /\ UNCHANGED <<x_pc, xDatVars>>
    /\ UNCHANGED <<xCatVars, x_mode, x_all_symbols, x_sel, x_out, x_errlog, x_written,
                   msVars, nmVars, flVars, prVars>>

\* convert2ascii lines 261-270: _load_columns; when it raises, the except
\* prints and convert2ascii returns: the entry is done
XAsciiLoadColumns ==
    /\ x_pc = "convert"
    /\ x_mode = "ascii"
    /\ \E d \in XDopFiles :
         LET r == DataFileInfo_load_columns(d)
         IN  IF r.err
             THEN /\ x_errlog' = Append(x_errlog, x_stocks.list[x_cur].stock_symbol)
                  /\ x_pos' = x_pos + 1
                  /\ x_pc' = "xiter"
                  /\ UNCHANGED <<x_dop, x_columns>>
             ELSE /\ x_dop' = d
                  /\ x_columns' = r.columns
                  /\ x_pc' = "open"
                  /\ UNCHANGED <<x_errlog, x_pos>>
    /\ UNCHANGED <<xCatVars, x_mode, x_all_symbols, x_sel, x_out,
                   x_written, x_cur, x_file, x_offset, x_num_fields, x_last_rec, x_k, x_ddl,
                   x_raised, msVars, nmVars, flVars, prVars>>

\* load_candles lines 146-168: open, the header, the padding; then the text
\* file is opened and its header line written
XAsciiOpenData ==
    /\ x_pc = "open"
    /\ x_mode = "ascii"
    /\ \E f \in XDataFiles(Len(x_columns.cols)) :
         /\ x_file' = f
         /\ IF ~f.present
            THEN /\ x_raised' = "IOError"
                 /\ UNCHANGED <<x_offset, x_num_fields, x_last_rec, x_written>>
            ELSE IF f.size < 4
            THEN /\ x_raised' = "struct.error"
                 /\ x_offset' = f.size
                 /\ UNCHANGED <<x_num_fields, x_last_rec, x_written>>
            ELSE /\ x_raised' = "none"
                 /\ x_last_rec' = f.last
                 /\ x_num_fields' = Len(x_columns.cols)
                 /\ x_offset' = IF Len(x_columns.cols) = 0
                                THEN f.size         \* read(-4) reads to the end
                                ELSE 4 + ReadLen(f.size, 4, (Len(x_columns.cols) - 1) * 4)
                 /\ x_written' = Append(x_written, x_stocks.list[x_cur].stock_symbol)
    /\ x_pc' = "records"
    /\ UNCHANGED <<xCatVars, x_mode, x_all_symbols, x_sel, x_pos, x_out, x_errlog,
                   x_cur, x_dop, x_columns, x_k, x_ddl, msVars, nmVars, flVars, prVars>>

\* lines 171-187: one row of range(self.last_rec - 1)
XAsciiWriteRow ==
    /\ x_pc = "records"
    /\ x_mode = "ascii"
    /\ x_raised = "none"
    /\ x_k < x_last_rec - 1
    /\ \E rec \in RecordContents(Len(x_columns.cols)) :
         LET stock == x_stocks.list[x_cur]
             r == XReadColumns(x_columns.cols, 1, x_offset,
                               ("Symbol" :> stock.stock_symbol),
                               x_file.size, rec, stock.file_num, x_precision)
         IN  /\ x_offset' = r.off
             /\ IF r.err
                THEN /\ x_raised' = r.exc
                     /\ UNCHANGED <<x_k, x_ddl>>
                ELSE /\ x_ddl' = Append(x_ddl, r.data_dict)
                     /\ x_k' = x_k + 1
                     /\ UNCHANGED x_raised
    /\ UNCHANGED <<x_pc, xCatVars, xCallVars, x_cur, x_dop, x_columns, x_file, x_num_fields,
                   x_last_rec, msVars, nmVars, flVars, prVars>>

\* lines 188-192: the finally closes both files, the exception goes on to
\* convert2ascii (lines 268-270), which prints it; the entry is done
XAsciiFinish ==
    /\ x_pc = "records"
    /\ x_mode = "ascii"
    /\ XReadOver
    /\ x_errlog' = IF x_raised # "none"
                   THEN Append(x_errlog, x_stocks.list[x_cur].stock_symbol)
                   ELSE x_errlog
    /\ x_pos' = x_pos + 1
    /\ XDropEntry
    /\ x_pc' = "xiter"
    /\ UNCHANGED <<xCatVars, x_mode, x_all_symbols, x_sel, x_out, x_written, x_cur,
                   msVars, nmVars, flVars, prVars>>

\* line 391, or the end of the loop of output_ascii: the call returns None
XReturnAscii ==
    /\ x_pc = "xiter"
    /\ x_mode = "ascii"
    /\ ~x_master_file \/ x_pos >= Len(x_stocks.list)
    /\ XResetCall
    /\ x_pc' = "xbuilt"
    /\ UNCHANGED <<xCatVars, msVars, nmVars, flVars, prVars>>

(***************************************************************************)
(* The run of both readers.                                                *)
(***************************************************************************)
XData ==
    /\ x_exc = "none" /\ x_master_file = FALSE /\ x_stocks = NoStocks /\ x_fh = "None"
    /\ XCallIdle /\ XDatIdle

XIdle == x_pc = "idle" /\ XData

MsIdle ==
    /\ pc = "idle" /\ exc = "none"
    /\ symbols = EmptyDict /\ table = EmptyTable /\ i = 0 /\ s = NewStock
    /\ master_fh = "None" /\ master_count = 0
    /\ emaster_fh = "unset" /\ emaster_count = 0
    /\ master_exists = FALSE /\ emaster_last = RecNone /\ index_eof = FALSE
    /\ CallIdle /\ DatIdle
    /\ XIdle

Init ==
    /\ pc = "start" /\ exc = "none"
    /\ symbols = EmptyDict /\ table = EmptyTable /\ i = 0 /\ s = NewStock
    /\ master_fh = "None" /\ master_count = 0
    /\ emaster_fh = "unset" /\ emaster_count = 0
    /\ master_exists = FALSE /\ emaster_last = RecNone /\ index_eof = FALSE
    /\ CallIdle /\ DatIdle
    /\ x_pc = "start" /\ XData
    /\ NmIdle /\ FlIdle /\ PrIdle

Next ==
    \/ MasterLoad
    \/ MasterLoadSymbol
    \/ EMasterLoad
    \/ EMasterLoadSymbol
    \/ EMasterClose
    \/ CallOutput
    \/ SelectStock
    \/ LoadColumns
    \/ OpenData
    \/ ReadRecord
    \/ FinishStock
    \/ ReturnOutput
    \/ OutputAscii
    \/ AsciiSelectStock
    \/ AsciiLoadColumns
    \/ AsciiOpenData
    \/ AsciiWriteRow
    \/ AsciiFinishStock
    \/ ReturnAscii
    \/ XConstruct
    \/ XOutputDataList
    \/ XSelectStock
    \/ XLoadColumns
    \/ XOpenData
    \/ XReadRecord
    \/ XFinish
    \/ XReturnOutput
    \/ XOutputAscii
    \/ XAsciiSelectStock
    \/ XAsciiLoadColumns
    \/ XAsciiOpenData
    \/ XAsciiWriteRow
    \/ XAsciiFinish
    \/ XReturnAscii

Spec == Init /\ [][Next]_vars

(***************************************************************************)
(* Driver of convertSymbolName: a name is normalised, and the result is    *)
(* normalised again.                                                       *)
(***************************************************************************)
NamesInit ==
    /\ nm_pc = "start"
    /\ nm_in \in SeqsUpTo(NameChars, MaxNameLen)
    /\ nm_once = NoResult
    /\ nm_twice = NoResult
    /\ FlIdle
    /\ MsIdle
    /\ PrIdle

NormalizeOnce ==
    /\ nm_pc = "start"
    /\ nm_once' = convertSymbolName(nm_in)
    /\ nm_pc' = IF nm_once'.err THEN "raised" ELSE "once"
    /\ UNCHANGED <<nm_in, nm_twice, flVars, prVars, msVars, xVars>>

NormalizeTwice ==
    /\ nm_pc = "once"
    /\ nm_twice' = convertSymbolName(nm_once.val)
    /\ nm_pc' = "twice"
    /\ UNCHANGED <<nm_in, nm_once, flVars, prVars, msVars, xVars>>

NamesNext == NormalizeOnce \/ NormalizeTwice

NamesSpec == NamesInit /\ [][NamesNext]_vars

(***************************************************************************)
(* Driver of fmsbin2ieee.                                                  *)
(***************************************************************************)
FloatInit ==
    /\ fl_pc = "start"
    /\ fl_bytes \in [1..4 -> ByteVals]
    /\ fl_res = FloatZero
    /\ NmIdle
    /\ MsIdle
    /\ PrIdle

Decode ==
    /\ fl_pc = "start"
    /\ fl_res' = fmsbin2ieee(fl_bytes)
    /\ fl_pc' = "done"
    /\ UNCHANGED <<fl_bytes, nmVars, prVars, msVars, xVars>>

FloatNext == Decode

FloatSpec == FloatInit /\ [][FloatNext]_vars

(***************************************************************************)
(* Driver of the precision setting: catalogs of both packages are          *)
(* constructed, with or without a precision argument and over index files  *)
(* that can or cannot be read, and values are formatted by the readers of  *)
(* the catalogs that exist.                                                *)
(***************************************************************************)
PrecisionInit ==
    /\ pr_pc = "run" /\ PrIdleData
    /\ NmIdle /\ FlIdle /\ MsIdle

\* MetastockFiles.__init__ (lines 452-483): the precision argument is stored
\* first; the index files are read after that, and when reading them raises
\* the exception ends the run and no catalog exists
ConstructCatalog ==
    /\ pr_pc = "run" /\ pr_ops < MaxOps
    /\ \E arg \in PrecArgs, ends \in CatalogEnds :
         /\ precision' = SetPrecision(precision, arg)
         /\ pr_op' = [name |-> "MetastockFiles", arg |-> arg, exc |-> ends]
         /\ pr_built' = IF ends = "none" THEN TRUE ELSE pr_built
         /\ pr_pc' = IF ends = "none" THEN "run" ELSE "crashed"
    /\ pr_ops' = pr_ops + 1
    /\ UNCHANGED <<x_precision, x_built, pr_first, pr_text, nmVars, flVars, msVars, xVars>>

\* metastockX MSEMasterFile.__init__ (lines 341-370), likewise
XConstructCatalog ==
    /\ pr_pc = "run" /\ pr_ops < MaxOps
    /\ \E arg \in PrecArgs, ends \in XCatalogEnds :
         /\ x_precision' = SetPrecision(x_precision, arg)
         /\ pr_op' = [name |-> "MSEMasterFile", arg |-> arg, exc |-> ends]
         /\ x_built' = IF ends = "none" THEN TRUE ELSE x_built
         /\ pr_pc' = IF ends = "none" THEN "run" ELSE "crashed"
    /\ pr_ops' = pr_ops + 1
    /\ UNCHANGED <<precision, pr_built, pr_first, pr_text, nmVars, flVars, msVars, xVars>>

\* candles_to_list lines 243-247: a float column of a record is read and
\* formatted with the class attribute
FormatValue ==
    /\ pr_pc = "run" /\ pr_ops < MaxOps
    /\ pr_built
    /\ \E value \in FloatVals : pr_text' = FloatColumn_format(value, precision)
    /\ pr_first' = IF pr_first.set THEN pr_first ELSE [set |-> TRUE, val |-> precision]
    /\ pr_op' = [name |-> "read", arg |-> NoArg, exc |-> "none"]
    /\ pr_ops' = pr_ops + 1
    /\ UNCHANGED <<pr_pc, precision, x_precision, pr_built, x_built, nmVars, flVars, msVars, xVars>>

\* the same in DataFileInfo.candles_to_list, with the attribute of its own
\* FloatColumn class
XFormatValue ==
    /\ pr_pc = "run" /\ pr_ops < MaxOps
    /\ x_built
    /\ \E value \in FloatVals : pr_text' = FloatColumn_format(value, x_precision)
    /\ pr_op' = [name |-> "xread", arg |-> NoArg, exc |-> "none"]
    /\ pr_ops' = pr_ops + 1
    /\ UNCHANGED <<pr_pc, precision, x_precision, pr_built, x_built, pr_first, nmVars, flVars, msVars, xVars>>

PrecisionNext == ConstructCatalog \/ XConstructCatalog \/ FormatValue \/ XFormatValue

PrecisionSpec == PrecisionInit /\ [][PrecisionNext]_vars

(***************************************************************************)
(* Claims about the catalog and the data file readers.                     *)
(***************************************************************************)
RecordKeys7 == {"Symbol", "Date", "Open", "High", "Low", "Close", "Volume", "Oi"}

\* the file number a record of the output was read from (0: no value in it)
FileOf(rec) ==
    IF DOMAIN rec = {"Symbol"} THEN 0
    ELSE rec[CHOOSE key \in DOMAIN rec : key # "Symbol"].f

\* C1 as stated: when the only index content is an EMASTER file declaring
\* one symbol (file 7, "ABC", 7 fields, 'D'), building the catalog leaves
\* that symbol in the table, and reading all symbols of a table holding
\* just this symbol (data file max=10, last=3, two stored records) yields
\* exactly 2 records with the eight keys.
C1_EMasterOnly ==
    /\ ( /\ pc = "emaster"
         /\ i >= emaster_count
         /\ ~master_exists
         /\ emaster_count = 1
         /\ emaster_last = ERec7 )
       => ( /\ order = <<7>>
            /\ symbols[7].stock_symbol = ABC
            /\ symbols[7].fields = 7
            /\ symbols[7].time_frame = "D" )
    /\ ( /\ pc = "records" /\ mode = "list" /\ ReadOver
         /\ all_symbols
         /\ order = <<7>>
         /\ ~dop.present
         /\ file = [present |-> TRUE, size |-> 84, max |-> 10, last |-> 3]
         /\ raised = "none" )
       => /\ Len(out \o ddl) = 2
          /\ \A j \in 1..Len(ddl) : DOMAIN ddl[j] = RecordKeys7

\* the table when the MASTER loop has ended, and what a read of the one
\* stock yields
C1_Read ==
    /\ ( /\ pc = "master" /\ master_exists /\ master_count = 1 /\ i = 1
         /\ s.file_number = 7 /\ s.stock_symbol = ABC /\ s.fields = 7
         /\ s.time_frame = "D" )
       => (order = <<7>> /\ symbols[7] = s)
    /\ (pc \in {"master", "emaster"} /\ ~master_exists) => symbols = EmptyDict
    /\ ( /\ pc = "records" /\ mode = "list" /\ ReadOver
         /\ all_symbols
         /\ order = <<7>>
         /\ symbols[7].stock_symbol = ABC
         /\ symbols[7].fields = 7
         /\ symbols[7].time_frame = "D"
         /\ ~dop.present
         /\ file = [present |-> TRUE, size |-> 84, max |-> 10, last |-> 3]
         /\ raised = "none" )
       => /\ out = <<>>
          /\ Len(ddl) = 2
          /\ \A j \in 1..Len(ddl) : DOMAIN ddl[j] = RecordKeys7
    /\ (Returning /\ symbols = EmptyDict) => out = <<>>

\* from the end of the MASTER loop on, a step keeps the keys of the table
\* and everything of an entry but its stock name, unless a new catalog is
\* constructed
C1_TableKept ==
    ((pc = "master" /\ i >= master_count) \/ pc \notin {"start", "master", "built"}
        \/ (pc = "built" /\ pc' \notin {"master", "crashed"}))
    => /\ order' = order
       /\ \A n \in DOMAIN symbols :
            [symbols'[n] EXCEPT !.stock_name = ""] = [symbols[n] EXCEPT !.stock_name = ""]

\* C1 as amended: the symbol has to be declared by MASTER, and both index
\* files have to be read without an exception.  When MASTER declares
\* exactly the symbol (file 7, "ABC", 7 fields, 'D'), the EMASTER loop and
\* the end of the build leave the entry as it is but for its stock name, and
\* with no sidecar and a data file of header max=10, last=3 and two stored
\* decodable 7-field records, reading all symbols yields exactly 2 records,
\* each with exactly the eight keys (the list the call returns is the list
\* read for the one stock); when MASTER is absent the catalog stays empty,
\* whatever a readable EMASTER declares, and no records are returned.
C1_MasterDeclared ==
    /\ []C1_Read
    /\ [][ /\ C1_TableKept
           /\ (pc = "records" /\ mode = "list" /\ pc' = "iter") => out' = out \o ddl
           /\ (pc = "iter" /\ mode = "list" /\ pc' = "iter") => out' = out ]_vars

C1_Witness ==
    /\ pc = "records" /\ mode = "list" /\ ReadOver
    /\ all_symbols
    /\ order = <<7>>
    /\ symbols[7].stock_symbol = ABC
    /\ symbols[7].fields = 7
    /\ symbols[7].time_frame = "D"
    /\ symbols[7].stock_name = "N7x"
    /\ cur = 7
    /\ ~dop.present
    /\ file = [present |-> TRUE, size |-> 84, max |-> 10, last |-> 3]
    /\ raised = "none"
    /\ out = <<>>
    /\ Len(ddl) = 2

\* C2: for a catalog of 3 selected symbols of which exactly one has a
\* missing data file (the other two being read completely), the call
\* returns, no record of the failing symbol is in the output and exactly one
\* error is logged, for the failing symbol.
C2_PartialFailure ==
    LET missing == {n \in DOMAIN symbols : outcome[n] = "missing"}
    IN  ( /\ pc \in {"iter", "failed"}
          /\ mode = "list"
          /\ all_symbols
          /\ Len(order) = 3
          /\ pos = 3
          /\ Cardinality(missing) = 1
          /\ \A n \in (DOMAIN symbols) \ missing : outcome[n] = "complete" )
        => /\ pc # "failed"
           /\ \A j \in 1..Len(out) : FileOf(out[j]) \notin missing
           /\ errlog = <<symbols[CHOOSE n \in missing : TRUE].stock_symbol>>

\* C3: whatever error ends the processing of one symbol (missing data file,
\* short data file, decode failure, column layout failure), that symbol
\* contributes no record to the output and the call goes on to the other
\* selected symbols.
C3_Isolation ==
    \A n \in DOMAIN symbols :
        (mode = "list" /\ outcome[n] \in {"missing", "error", "layout"})
        => /\ pc # "failed"
           /\ \A j \in 1..Len(out) : FileOf(out[j]) # n

\* C4 as stated: in both readers the k-th record starts at offset
\* 4 + (field count - 1) * 4 + k * 4 * len(layout), for every layout.
C4_Alignment ==
    /\ (pc = "records" /\ raised = "none")
       => offset = 4 + (symbols[cur].fields - 1) * 4 + k * 4 * Len(columns.cols)
    /\ (x_pc = "records" /\ x_raised = "none")
       => x_offset = 4 + (x_num_fields - 1) * 4 + x_k * 4 * Len(x_columns.cols)

\* C4 as amended: DatFile (which seeks) starts the k-th record at offset
\* 4 + (field count - 1) * 4 + k * 4 * len(layout) for every layout;
\* DataFileInfo (which reads) does so as long as the file holds these
\* bytes: its position never passes the end of the file, and with an empty
\* layout its header read consumes the whole file.
C4_AlignmentWithinFile ==
    /\ (pc = "records" /\ raised = "none")
       => offset = 4 + (symbols[cur].fields - 1) * 4 + k * 4 * Len(columns.cols)
    /\ (x_pc = "records" /\ x_raised = "none")
       => x_offset = IF Len(x_columns.cols) = 0
                     THEN x_file.size
                     ELSE Min(x_file.size,
                              4 + (x_num_fields - 1) * 4 + x_k * 4 * Len(x_columns.cols))

C4_Witness ==
    /\ x_pc = "records"
    /\ x_raised = "none"
    /\ x_columns.cols = <<"DATE", "XX">>
    /\ x_k = 2
    /\ x_file.size = 22
    /\ x_offset = 22

\* what the loop has appended and what a read without error ends with
C5_Count ==
    /\ ( /\ pc = "records"
         /\ ReadOver
         /\ raised = "none" )
       => /\ Len(ddl) = Max(0, file.last - 1)
          /\ \A j \in 1..Len(ddl) :
               \A key \in (DOMAIN ddl[j]) \ {"Symbol"} :
                  LET width == 4 * Len(columns.cols)
                      start == 4 + (symbols[cur].fields - 1) * 4
                  IN  /\ ddl[j][key].at >= start + (j - 1) * width
                      /\ ddl[j][key].at < start + j * width
    /\ (pc = "records")
       => /\ Len(ddl) = k
          /\ k <= Max(0, last_rec - 1)
          /\ (raised = "none" => last_rec = file.last)

\* C5: a read that ends without an error yields exactly L - 1 records for a
\* header declaring last-used count L (none when L <= 1), whatever the
\* max-record-count field holds, the j-th record holding the values of the
\* j-th record slot of the file; the loop ends: its counter never passes
\* L - 1 and every step that stays in the loop appends one record or raises.
C5_RecordCount ==
    /\ []C5_Count
    /\ [][ /\ (pc = "records" /\ pc' = "records")
                => (k' = k + 1 \/ (raised = "none" /\ raised' # "none"))
           /\ (pc = "records" /\ mode = "list" /\ pc' # "records")
                => (ReadOver /\ out' = out \o ddl) ]_vars

C5_Witness ==
    /\ pc = "records"
    /\ mode = "list"
    /\ ReadOver
    /\ raised = "none"
    /\ file.max = 3
    /\ file.last = 3
    /\ Len(ddl) = 2

\* C6: when no sidecar file exists, load_columns sets exactly the layout
\* [DATE, OPEN, HIGH, LOW, CLOSE, VOL, OI] if the declared field count is 7,
\* and otherwise fails, leaving self.columns unset.
C6_Fallback ==
    (pc \in {"open", "records", "failed"} /\ ~dop.present)
    => IF symbols[cur].fields = 7
       THEN /\ columns = [set |-> TRUE,
                          cols |-> <<"DATE", "OPEN", "HIGH", "LOW", "CLOSE", "VOL", "OI">>]
            /\ pc # "failed"
       ELSE /\ columns = [set |-> FALSE, cols |-> <<>>]
            /\ pc = "failed"

C6_Witness ==
    /\ pc = "failed"
    /\ cur = 1
    /\ ~dop.present
    /\ symbols[1].fields = 6
    /\ ~columns.set

\* the display names of the recognized tokens
DisplayName(tok) ==
    CASE tok = "DATE" -> "Date"
      [] tok = "TIME" -> "Time"
      [] tok = "OPEN" -> "Open"
      [] tok = "HIGH" -> "High"
      [] tok = "LOW" -> "Low"
      [] tok = "CLOSE" -> "Close"
      [] tok = "VOL" -> "Volume"
      [] tok = "OI" -> "Oi"

Recognized == {"DATE", "TIME", "OPEN", "HIGH", "LOW", "CLOSE", "VOL", "OI"}

\* C7: every record produced for a symbol has the key Symbol plus exactly
\* one key per recognized token of the layout, under the token's display
\* name; an unrecognized token stays in the layout, takes its 4 bytes of
\* the record and contributes no key and no value.
C7_RecordKeys ==
    (pc \in {"open", "records"})
    => /\ Len(columns.cols) = symbols[cur].fields
       /\ \A j \in 1..Len(ddl) :
            LET known == {t \in 1..Len(columns.cols) : columns.cols[t] \in Recognized}
                start == 4 + (symbols[cur].fields - 1) * 4
                        + (j - 1) * 4 * Len(columns.cols)
            IN  /\ DOMAIN ddl[j] = {"Symbol"} \cup {DisplayName(columns.cols[t]) : t \in known}
                /\ ddl[j]["Symbol"] = symbols[cur].stock_symbol
                /\ \A t \in known :
                     ddl[j][DisplayName(columns.cols[t])].at = start + 4 * (t - 1)

C7_Witness ==
    /\ cur = 2
    /\ pc = "records"
    /\ ReadOver
    /\ columns.cols = <<"XX", "TIME", "YY">>
    /\ Len(ddl) = 2
    /\ DOMAIN ddl[2] = {"Symbol", "Time"}
    /\ ddl[2]["Time"].at = 28

\* C11: 0 is never a key of the symbols table and every entry's file
\* number is its key, whatever the index files hold; the table is iterated
\* over its (distinct) keys in the order of their hash slots, and a MASTER
\* record whose file number is already a key replaces the entry stored
\* under it.
C11_PlaceholderExcluded ==
    /\ 0 \notin DOMAIN symbols
    /\ \A n \in DOMAIN symbols : symbols[n].file_number = n
    /\ {order[j] : j \in 1..Len(order)} = DOMAIN symbols
    /\ \A j1, j2 \in 1..Len(order) : j1 < j2 => HashSlot(table, order[j1]) < HashSlot(table, order[j2])
    /\ (pc = "master" /\ s.file_number > 0) => symbols[s.file_number] = s

C11_Witness ==
    /\ pc = "master"
    /\ i = 3
    /\ order = <<1, 7>>
    /\ s = symbols[1]
    /\ symbols[1].fields = 6
    /\ symbols[1].stock_symbol = ABC

\* what one step of the catalog build may do to the table once MASTER is read
C12_Step ==
    IF pc = "emaster" /\ pc' = "emaster" /\ i' = i + 1
    THEN \A n \in DOMAIN symbols :
            symbols'[n] = IF n = s'.file_number /\ s'.stock_name # ""
                          THEN [symbols[n] EXCEPT !.stock_name = s'.stock_name]
                          ELSE symbols[n]
    ELSE symbols' = symbols

\* C12: processing EMASTER never adds or removes a key of the symbols
\* table; a record whose file number is a key and whose name is non-empty
\* replaces the stock name of that entry and nothing else; a record with an
\* empty name or with a file number that is no key changes nothing.
C12_Reconciliation ==
    [][(pc = "emaster" \/ pc' = "emaster")
         => /\ DOMAIN symbols' = DOMAIN symbols
            /\ order' = order
            /\ C12_Step]_vars

C12_Witness ==
    /\ pc = "emaster"
    /\ i = 1
    /\ emaster_last = ERec7
    /\ order = <<1, 7>>
    /\ symbols[7].stock_name = "N7x"
    /\ symbols[7].stock_symbol = ABC
    /\ symbols[7].fields = 7
    /\ symbols[1].stock_name = "N1"

\* the position of a file number in the iteration order of the table
PosOf(n) == CHOOSE j \in 1..Len(order) : order[j] = n

\* C13: output_data_list processes every catalog entry when all_symbols is
\* true and otherwise exactly the entries whose symbol code is an element of
\* symbols; entries not selected contribute no records, and the records of
\* the selected entries appear grouped per symbol in catalog order.
C13_Selection ==
    (mode = "list" /\ (Returning \/ pc = "failed"))
    => /\ \A n \in DOMAIN symbols :
            (outcome[n] # "none")
               <=> (all_symbols \/ symbols[n].stock_symbol \in sel)
       /\ \A j \in 1..Len(out) :
            /\ FileOf(out[j]) \in DOMAIN symbols
            /\ all_symbols \/ symbols[FileOf(out[j])].stock_symbol \in sel
       /\ \A j1, j2 \in 1..Len(out) :
            j1 < j2 => PosOf(FileOf(out[j1])) <= PosOf(FileOf(out[j2]))

\* the same, for the calls that return
C13_SelectionOfReturnedCalls ==
    Returning
    => /\ \A n \in DOMAIN symbols :
            (outcome[n] # "none")
               <=> (all_symbols \/ symbols[n].stock_symbol \in sel)
       /\ \A j \in 1..Len(out) :
            /\ FileOf(out[j]) \in DOMAIN symbols
            /\ all_symbols \/ symbols[FileOf(out[j])].stock_symbol \in sel
       /\ \A j1, j2 \in 1..Len(out) :
            j1 < j2 => PosOf(FileOf(out[j1])) <= PosOf(FileOf(out[j2]))

\* C14: an absent MASTER contributes zero records and the build goes on to
\* EMASTER; an absent EMASTER ends the construction with SystemExit, before
\* any handle on it exists and with nothing left to run (no table); an
\* absent XMASTER still yields an MSEMasterFile, whose output_data_list
\* returns the empty list.
C14_MissingIndexState ==
    /\ (pc = "master" /\ ~master_exists)
           => (master_count = 0 /\ symbols = EmptyDict /\ exc = "none"
               /\ ENABLED EMasterLoad)
    /\ (pc = "exited")
           => (exc = "SystemExit" /\ emaster_fh = "unset" /\ out = <<>>
               /\ ~ENABLED Next)
    /\ (x_pc # "start" /\ ~x_master_file)
           => (x_pc \in {"xbuilt", "xiter"} /\ x_stocks = NoStocks /\ x_out = <<>>
               /\ ((x_pc = "xbuilt" /\ MsQuiet) => ENABLED XOutputDataList)
               /\ ((x_pc = "xiter" /\ x_mode = "list") => XReturning))

C14_MissingIndexStep ==
    /\ (MsQuiet /\ pc' \in {"master", "crashed"} /\ ~master_exists')
           => (pc' = "master" /\ exc' = "none" /\ master_count' = 0)
    /\ (pc = "master" /\ i >= master_count /\ pc' # "master")
           => (emaster_fh' = "open" \/ (pc' = "exited" /\ exc' = "SystemExit"))
    /\ (x_pc = "xbuilt" /\ ~x_master_file /\ x_pc' = "xiter" /\ x_mode' = "list")
           => (~x_master_file' /\ x_out' = <<>>)
    /\ (x_pc = "xiter" /\ x_mode = "list" /\ ~x_master_file /\ x_pc' # "xiter")
           => (x_pc' = "xbuilt" /\ x_out = <<>>)

C14_MissingIndex == []C14_MissingIndexState /\ [][C14_MissingIndexStep]_vars

C14_Witness ==
    /\ pc = "exited" /\ ~master_exists /\ master_count = 0
    /\ symbols = EmptyDict /\ emaster_fh = "unset"

\* C17: a structural error while reading one index file (a read past the
\* end of the file, a declared record count larger than the records present)
\* is fatal for that file only: it never ends the catalog build, which goes
\* on to the remaining index source.
C17_IndexIsolation ==
    (exc = "struct.error") => (pc # "crashed")

\* the build ended inside the MASTER loop, EMASTER never opened
C17_AbortedInMaster ==
    /\ pc = "crashed" /\ exc = "struct.error"
    /\ master_exists /\ i < master_count
    /\ emaster_fh = "unset"

\* C18: every error while processing a symbol (layout resolution, opening
\* the data file, reading or decoding a record) produces a diagnostic that
\* names the symbol: no exception is discarded without one.
C18_Diagnostics ==
    \A n \in DOMAIN symbols :
        (outcome[n] \in {"layout", "missing", "error"})
           => \E j \in 1..Len(errlog) : errlog[j] = symbols[n].stock_symbol

\* the part that holds: a layout failure is reported, naming the symbol
C18_LayoutDiagnostics ==
    \A n \in DOMAIN symbols :
        (outcome[n] = "layout")
           => \E j \in 1..Len(errlog) : errlog[j] = symbols[n].stock_symbol

\* a read that raised, with nothing printed
C18_SilentReached ==
    /\ Returning /\ errlog = <<>>
    /\ \E n \in DOMAIN symbols : outcome[n] = "error"

\* C19: the precision used to format the float columns is 2 unless a
\* catalog was constructed with a precision argument, and over any sequence
\* of catalog constructions and record reads it never changes once the
\* first record has been formatted.
C19_PrecisionFixed ==
    /\ (pr_pc = "run" /\ pr_first.set) => (precision = pr_first.val)
    /\ (pr_pc = "run" /\ pr_op.name = "read") => (pr_text.decimals = precision)

\* the part that holds: only a constructor called with the argument writes
\* the attribute of its own package, and a read never writes either
C19_WrittenByConstructorsOnly ==
    [][ /\ (precision' # precision)
            => (pr_op'.name = "MetastockFiles" /\ pr_op'.arg.given
                /\ precision' = pr_op'.arg.val)
        /\ (x_precision' # x_precision)
            => (pr_op'.name = "MSEMasterFile" /\ pr_op'.arg.given
                /\ x_precision' = pr_op'.arg.val)
        /\ (pr_op'.name \in {"read", "xread"})
            => (precision' = precision /\ x_precision' = x_precision) ]_vars

\* a catalog constructed with another precision after a value was formatted
C19_ChangedAfterFirstRead ==
    /\ pr_pc = "run"
    /\ pr_first = [set |-> TRUE, val |-> 2]
    /\ pr_op = [name |-> "MetastockFiles", arg |-> [given |-> TRUE, val |-> 3], exc |-> "none"]
    /\ precision = 3

\* C20: at most one index file is open at any moment of the catalog build,
\* and on every exit path of the build (completion, or an error in a record
\* read) and of a per-symbol data-file read every handle that was opened has
\* been closed.
C20_HandleLifecycle ==
    /\ ~(master_fh = "open" /\ emaster_fh = "open")
    /\ (pc \in {"built", "exited", "crashed"})
           => (master_fh # "open" /\ emaster_fh # "open")
    /\ (pc = "iter") => (fh # "open")

\* the part that holds: one index file at a time, both closed when the
\* build completes or exits, the data file closed by the finally block
C20_HandlesOfCompletedPaths ==
    /\ ~(master_fh = "open" /\ emaster_fh = "open")
    /\ (pc \in {"built", "exited"}) => (master_fh # "open" /\ emaster_fh # "open")
    /\ (pc = "iter") => (fh # "open")

\* an index file left open by an error in a record read
C20_LeakReached ==
    /\ pc = "crashed" /\ master_fh = "open" /\ i < master_count

(***************************************************************************)
(* Claims about the helper functions.                                      *)
(***************************************************************************)

\* C8: for every 4-byte input whose bytes 2..3 (the mantissa word) are zero,
\* fmsbin2ieee returns exactly 0.0, whatever the other two bytes are.
C8_ZeroMantissa ==
    (fl_pc = "done" /\ fl_bytes[3] = 0 /\ fl_bytes[4] = 0) => fl_res = FloatZero

C8_Witness ==
    /\ fl_pc = "done"
    /\ fl_bytes[3] = 0 /\ fl_bytes[4] = 0
    /\ fl_bytes[1] = 255 /\ fl_bytes[2] = 130
    /\ fl_res = FloatZero

\* C9 as stated: normalising an accepted name twice gives the same result as
\* normalising it once.
C9_Idempotent ==
    (nm_pc = "twice") => nm_twice = nm_once

\* C9 as amended: normalising twice equals normalising once exactly when the
\* first result is non-empty and does not start with '@'; on an empty first
\* result the second call raises IndexError, and on a first result that
\* starts with '@' the second call removes two more characters.
C9_IdempotentUnlessMarkerOrEmpty ==
    (nm_pc = "twice") =>
        /\ (nm_once.val # <<>> /\ nm_once.val[1] # "@") => nm_twice = nm_once
        /\ (nm_once.val = <<>>) => nm_twice.err
        /\ (nm_once.val # <<>> /\ nm_once.val[1] = "@") =>
               /\ ~nm_twice.err
               /\ nm_twice.val = Slice(nm_once.val, 2, Len(nm_once.val))
               /\ nm_twice.val # nm_once.val

C9_Witness ==
    /\ nm_pc = "twice"
    /\ nm_in = <<"@", "A", "@", "B">>
    /\ nm_once = Ok(<<"@", "B">>)
    /\ nm_twice = Ok(<<>>)

\* the name without its 2-character marker when it starts with the marker
PrefixStripped(x) ==
    IF Len(x) > 0 /\ x[1] = "@" THEN Slice(x, 2, Len(x)) ELSE x

HasPound(x) == \E p \in 1..Len(x) : x[p] = "#"

\* C10 as stated: a name without '#' is returned whole (prefix-stripped), and
\* the result is never empty and never an error.
C10_NoPoundNeverEmpty ==
    (nm_pc # "start" /\ ~HasPound(nm_in)) =>
        /\ ~nm_once.err
        /\ nm_once.val = PrefixStripped(nm_in)
        /\ nm_once.val # <<>>

\* C10 as amended: a non-empty name without '#' is returned whole
\* (prefix-stripped) without an error; the result is empty exactly when the
\* name starts with '@' and has at most two characters; the empty name
\* raises IndexError.
C10_NoPoundWholeRemainder ==
    (nm_pc # "start" /\ ~HasPound(nm_in)) =>
        /\ (nm_in = <<>>) => nm_once.err
        /\ (nm_in # <<>>) =>
               /\ ~nm_once.err
               /\ nm_once.val = PrefixStripped(nm_in)
               /\ (nm_once.val = <<>>) <=> (nm_in[1] = "@" /\ Len(nm_in) <= 2)

C10_Witness ==
    /\ nm_pc = "once"
    /\ nm_in = <<"@", "A", "B", "A">>
    /\ nm_once = Ok(<<"B", "A">>)

\* the reference of the description: remove the 2-character marker when the
\* name starts with it, then cut the remainder at the first '#' in it
Reference(name) ==
    LET rest == IF Len(name) > 0 /\ name[1] = "@"
                THEN Slice(name, 2, Len(name)) ELSE name
        cut == Find(rest, "#")
    IN  IF cut = -1 THEN rest ELSE Slice(rest, 0, cut)

\* a '#' inside the first two characters of a marker-prefixed name
EarlyPound(name) == Len(name) >= 2 /\ name[1] = "@" /\ name[2] = "#"

\* C15: for every name, convertSymbolName equals the reference "strip the
\* marker, then cut the remainder at its first '#'", also when a '#' lies
\* inside the first two characters of a marker-prefixed name and when the
\* name is empty.
C15_StripThenTruncate ==
    (nm_pc # "start") => (nm_once = Ok(Reference(nm_in)))

\* C15 as the code has it: convertSymbolName equals the reference for every
\* non-empty name without a '#' in the stripped marker; with a '#' there the
\* result is the empty name, and the empty name raises.
C15_StripThenTruncateUnlessEarlyPound ==
    (nm_pc # "start")
    => IF Len(nm_in) = 0 THEN nm_once.err /\ nm_pc = "raised"
       ELSE IF EarlyPound(nm_in) THEN nm_once = Ok(<<>>)
       ELSE nm_once = Ok(Reference(nm_in))

C15_Witness ==
    /\ nm_pc = "twice"
    /\ nm_in = <<"@", "#", "A", "B">>
    /\ Reference(nm_in) = <<"A", "B">>
    /\ nm_once = Ok(<<>>)

\* the word of bytes 2..3 of the input, of the result, and the exponent byte
WordIn == fl_bytes[3] + 256 * fl_bytes[4]
WordOut == fl_res[3] + 256 * fl_res[4]
ExpByte == fl_bytes[4]

\* C16: for every input whose word W is non-zero, fmsbin2ieee leaves bytes
\* 0..1 unchanged and rebuilds the word: the 7 mantissa bits stay in place,
\* bit 7 of W (the sign) moves to bit 15, and the exponent byte reduced by 2
\* (modulo 256) is placed in bits 7..14, for every exponent byte including
\* 0 and 1.
C16_Reassembly ==
    (fl_pc = "done" /\ WordIn # 0)
    => /\ fl_res[1] = fl_bytes[1] /\ fl_res[2] = fl_bytes[2]
       /\ WordOut \in 0..65535
       /\ WordOut % 128 = WordIn % 128
       /\ (WordOut \div 128) % 256 = (ExpByte - 2) % 256
       /\ WordOut \div 32768 = (WordIn \div 128) % 2

\* the same with the sign as the code computes it: below exponent byte 2 the
\* negative exponent difference sets bit 15 whatever the sign of the input
C16_ReassemblyBorrow ==
    (fl_pc = "done" /\ WordIn # 0)
    => /\ fl_res[1] = fl_bytes[1] /\ fl_res[2] = fl_bytes[2]
       /\ WordOut \in 0..65535
       /\ WordOut % 128 = WordIn % 128
       /\ (WordOut \div 128) % 256 = (ExpByte - 2) % 256
       /\ WordOut \div 32768 = (IF ExpByte >= 2 THEN (WordIn \div 128) % 2 ELSE 1)

C16_BorrowReached ==
    /\ fl_pc = "done"
    /\ fl_bytes = <<0, 0, 1, 1>>
    /\ fl_res = <<0, 0, 129, 255>>

====
